---- MODULE Spec2Model ----
(***************************************************************************)
(* A model of cfn-lint's JSON-schema validation engine:                    *)
(*   cfnlint/schema/validator.py      (create / Validator)                 *)
(*   cfnlint/jsonschema/_validators.py (the keyword validator library)     *)
(*   cfnlint/schema/_legacy_validators.py and                              *)
(*   cfnlint/rules/resources/properties/JsonSchema.py (the host's table).  *)
(*                                                                         *)
(* JSON values (instances and schemas alike) are tagged records            *)
(*   [t |-> "string"|"number"|"float"|"boolean"|"null"|"array"|"object",   *)
(*    v |-> _]; "number" tags an int, "float" a float                      *)
(* an object's v being the ordered sequence of its <<key, value>> pairs.   *)
(*                                                                         *)
(* A Python generator is modelled by the sequence of events its body       *)
(* performs when it is run to exhaustion; a suspended generator is the     *)
(* sequence of events it has still to perform.  Events:                    *)
(*   push   resolver.push_scope(s)                                         *)
(*   pop    resolver.pop_scope()                                           *)
(*   disp   iter_errors calls the validator registered for keyword k       *)
(*   yield  the generator yields value e; cl are the events of the         *)
(*          finally blocks that run if the generator is closed here        *)
(*   raise  an exception leaves the generator                              *)
(***************************************************************************)
EXTENDS Integers, Sequences, FiniteSets, TLC

(***************************************************************************)
(* Bounds of the model.                                                    *)
(***************************************************************************)
\* longest array instance drawn
MaxLen == 2
\* most items a consumer of a stream pulls before it may only abandon it
MaxPulls == 3

(***************************************************************************)
(* JSON values.                                                            *)
(***************************************************************************)
Str(s) == [t |-> "string", v |-> s]
Num(n) == [t |-> "number", v |-> n]
\* a float whose value is the whole number n (1.0 is Flt(1))
Flt(n) == [t |-> "float", v |-> n]
Bool(b) == [t |-> "boolean", v |-> b]
Null == [t |-> "null", v |-> "null"]
Arr(seq) == [t |-> "array", v |-> seq]
Obj(pairs) == [t |-> "object", v |-> pairs]

TrueSchema == Bool(TRUE)
FalseSchema == Bool(FALSE)

\* path segments: a key of a mapping, or an index of a sequence (0-based)
Key(s) == [k |-> s]
Idx(n) == [i |-> n]

\* Python's None
NoneV == [kind |-> "None"]

IsObj(x) == x.t = "object"
IsArr(x) == x.t = "array"

\* `key in mapping`
Has(obj, key) == \E j \in 1..Len(obj.v) : obj.v[j][1] = key

\* mapping[key]
Get(obj, key) == obj.v[CHOOSE j \in 1..Len(obj.v) : obj.v[j][1] = key][2]

\* mapping.get(key, default)
GetOr(obj, key, default) == IF Has(obj, key) THEN Get(obj, key) ELSE default

(***************************************************************************)
(* Errors.  An error is created with an empty instance path, an empty      *)
(* schema path and no keyword; `args` are the values its message names.    *)
(***************************************************************************)
ValidationError(message, args, context) ==
    [kind |-> "error", message |-> message, args |-> args,
     path |-> <<>>, schema_path |-> <<>>, validator |-> "unset",
     instance |-> NoneV, context |-> context]

(***************************************************************************)
(* Events.                                                                 *)
(***************************************************************************)
\* by: the function that makes the call ("iter_errors" or "$ref"), d: its depth
Push(s, by, d) == [e |-> "push", s |-> s, by |-> by, d |-> d]
Pop(by, d) == [e |-> "pop", by |-> by, d |-> d]
Disp(k, d) == [e |-> "disp", k |-> k, d |-> d]
Yield(x) == [e |-> "yield", x |-> x, cl |-> <<>>]
Raise(x) == [e |-> "raise", x |-> x]

IsYield(ev) == ev.e = "yield"
IsRaise(ev) == ev.e = "raise"

\* the run ended with an exception
Raised(evs) == Len(evs) > 0 /\ IsRaise(evs[Len(evs)])

\* the values a run yields, in order
Yields(evs) ==
    LET ys == SelectSeq(evs, IsYield)
    IN [j \in 1..Len(ys) |-> ys[j].x]

\* a run without its yield events (what a run does besides yielding)
NotYield(ev) == ~IsYield(ev)
Effects(evs) == SelectSeq(evs, NotYield)

\* position of the first yield of a run, 0 if it has none
FirstYield(evs) ==
    IF \E j \in 1..Len(evs) : IsYield(evs[j])
    THEN CHOOSE j \in 1..Len(evs) :
            IsYield(evs[j]) /\ \A h \in 1..(j-1) : ~IsYield(evs[h])
    ELSE 0

(***************************************************************************)
(* The reference resolver (jsonschema.RefResolver, a collaborator of the   *)
(* engine): a scope stack and a store of documents keyed by absolute URI.  *)
(***************************************************************************)
\* the documents the resolver can load
StoreUris ==
    {"urn:leaf", "urn:scoped", "urn:broken", "urn:loop", "urn:tree",
     "urn:root#/definitions/s",
     "http://outer/#node", "http://inner/#node", "http://plain/#node",
     "http://other/#node"}

Store(uri) ==
    CASE uri = "urn:leaf" -> Obj(<< <<"type", Str("string")>> >>)
      [] uri = "urn:scoped" ->
            Obj(<< <<"$id", Str("urn:scoped")>>, <<"type", Str("number")>>,
                   <<"minimum", Num(2)>> >>)
      [] uri = "urn:broken" ->
            Obj(<< <<"$id", Str("urn:broken")>>, <<"minimum", Num(2)>>,
                   <<"type", Str("bogus")>> >>)
      [] uri = "urn:loop" -> Obj(<< <<"$ref", Str("urn:loop")>> >>)
      [] uri = "urn:tree" ->
            Obj(<< <<"$id", Str("urn:tree")>>,
                   <<"properties",
                     Obj(<< <<"a", Obj(<< <<"$ref", Str("urn:tree")>> >>)>> >>)>> >>)
      [] uri = "urn:root#/definitions/s" -> Obj(<< <<"type", Str("number")>> >>)
      [] uri = "http://outer/#node" ->
            Obj(<< <<"$dynamicAnchor", Str("node")>>, <<"type", Str("string")>> >>)
      [] uri = "http://inner/#node" ->
            Obj(<< <<"$dynamicAnchor", Str("node")>>, <<"type", Str("number")>> >>)
      [] uri = "http://plain/#node" -> Obj(<< <<"type", Str("number")>> >>)
      [] uri = "http://other/#node" ->
            Obj(<< <<"$dynamicAnchor", Str("leaf")>>, <<"type", Str("string")>> >>)

\* references that are relative to the current resolution scope
RelativeRefs == {"#/definitions/s", "#node"}

\* urldefrag(ref)[1]
Fragment(r) == IF r = "#node" THEN "node" ELSE ""

\* urljoin(resolution_scope, ref)
UrlJoin(base, r) == IF r \in RelativeRefs THEN base \o r ELSE r

\* resolver.resolve(ref): (url, schema), or a RefResolutionError
Resolve(stack, r) ==
    LET url == UrlJoin(stack[Len(stack)], r)
    IN IF url \in StoreUris
       THEN [ok |-> TRUE, scope |-> url, schema |-> Store(url)]
       ELSE [ok |-> FALSE, scope |-> url, schema |-> NoneV]

\* the scope stack after a run's push_scope / pop_scope calls
RECURSIVE StackAfter(_, _)
StackAfter(stack, evs) ==
    IF Len(evs) = 0 THEN stack
    ELSE LET ev == Head(evs)
             next == IF ev.e = "push" THEN Append(stack, ev.s)
                     ELSE IF ev.e = "pop" THEN SubSeq(stack, 1, Len(stack) - 1)
                     ELSE stack
         IN StackAfter(next, Tail(evs))

(***************************************************************************)
(* try: body finally: cleanup, around a generator body.  The cleanup runs  *)
(* when the body ends, when an exception leaves it, and when the generator *)
(* is closed while suspended at one of the body's yields.                  *)
(***************************************************************************)
TryFinally(body, cleanup) ==
    LET marked == [j \in 1..Len(body) |->
                     IF IsYield(body[j])
                     THEN [body[j] EXCEPT !.cl = @ \o cleanup]
                     ELSE body[j]]
    IN IF Raised(body)
       THEN SubSeq(marked, 1, Len(body) - 1) \o cleanup \o <<body[Len(body)]>>
       ELSE marked \o cleanup

(***************************************************************************)
(* The type predicate table.                                               *)
(***************************************************************************)
KnownTypes == {"array", "boolean", "integer", "null", "number", "object", "string"}

\* TYPE_CHECKER.is_type(instance, type) for a registered type
TypeHolds(instance, name) ==
    CASE name = "array" -> instance.t = "array"
      [] name = "boolean" -> instance.t = "boolean"
      [] name = "integer" -> instance.t = "number"
      [] name = "null" -> instance.t = "null"
      [] name = "number" -> instance.t \in {"number", "float"}
      [] name = "object" -> instance.t = "object"
      [] name = "string" -> instance.t = "string"

\* variant: a boolean taken for a number, as isinstance(True, int) holds
is_type_bool_is_int(instance, name) ==
    TypeHolds(instance, name) \/ (name = "number" /\ instance.t = "boolean")

\* Validator.is_type for a type name the keyword validators hard-code
is_type(instance, name) == TypeHolds(instance, name)

(***************************************************************************)
(* What `create` is given: the keyword dispatch table, the scope-id        *)
(* function and the applicable-keywords function.                          *)
(*   "modern": every keyword bound to its function of                      *)
(*             cfnlint/jsonschema/_validators.py, create's defaults else   *)
(*   "host":   the table JsonSchema._setup_validator assembles             *)
(***************************************************************************)
Configs == <<"modern", "host">>

\* the keywords the model implements
Implemented ==
    {"$dynamicRef", "$ref", "additionalItems", "additionalProperties", "allOf", "anyOf", "contains",
     "const", "dependencies", "dependentRequired", "dependentSchemas", "enum",
     "exclusiveMaximum",
     "exclusiveMinimum", "if", "items", "maxItems", "maxLength", "maxProperties", "maximum", "minItems",
     "minLength", "minProperties", "minimum", "multipleOf", "not", "oneOf", "pattern",
     "patternProperties", "prefixItems", "properties", "propertyNames", "required",
     "type", "unevaluatedProperties", "uniqueItems"}

\* VALIDATORS.get(k): the implementation bound to keyword k, "none" if unbound
VALIDATORS(cfg, k) ==
    IF k \notin Implemented THEN "none"
    ELSE IF cfg = "host"
    THEN CASE k = "items" -> "items_draft6_draft7_draft201909"
           [] k = "contains" -> "contains_draft6_draft7"
           [] k = "additionalProperties" -> "validate_additional_properties"
           [] k = "unevaluatedProperties" -> "none"
           [] k = "dependentRequired" -> "none"
           [] k = "$dynamicRef" -> "none"
           [] k = "dependentSchemas" -> "none"
           [] k = "uniqueItems" -> "ListDuplicates.validate"
           [] k = "prefixItems" -> "none"
           [] k = "dependencies" -> "dependencies_draft4_draft6_draft7"
           [] OTHER -> k
    ELSE IF k = "dependencies" THEN "_validators.dependencies_draft4_draft6_draft7"
    ELSE k

\* the functions of the source written for keyword k
ImplsFor(k) ==
    IF k \notin Implemented THEN {}
    ELSE IF k = "items" THEN {"items", "items_draft6_draft7_draft201909"}
    ELSE IF k = "contains" THEN {"contains", "contains_draft6_draft7"}
    ELSE IF k = "additionalProperties"
    THEN {"additionalProperties", "validate_additional_properties"}
    ELSE IF k = "uniqueItems" THEN {"uniqueItems", "ListDuplicates.validate"}
    ELSE IF k = "enum" THEN {"enum", "AllowedValue.enum"}
    ELSE IF k = "dependencies"
    THEN {"dependencies_draft4_draft6_draft7",
          "_validators.dependencies_draft4_draft6_draft7"}
    ELSE {k}

\* re.search(pattern, key) for the patterns the schemas use
ReSearch(pattern, key) ==
    CASE pattern = "^b" -> key \in {"b", "bc"}
      [] pattern = "c$" -> key \in {"c", "bc"}
      [] OTHER -> FALSE

\* re.search("|".join(patterns), key): some alternative matches
ReSearchAny(patterns, key) ==
    \E j \in 1..Len(patterns) : ReSearch(patterns[j], key)

\* the elements of a sequence in reverse
Reverse(seq) == [j \in 1..Len(seq) |-> seq[Len(seq) + 1 - j]]

\* the order in which this run of the interpreter iterates a set of strings
VARIABLE hashseed

\* set(keys) iterated: a set of strings has no order of its own, the hash seed
\* of the run decides it
SetIter(keys) == IF hashseed = 0 THEN keys ELSE Reverse(keys)

\* the hash seeds that make a difference for a schema: those of the runs
\* that iterate a set
HashSeeds(schema) ==
    IF IsObj(schema) /\ Has(schema, "additionalProperties") THEN {0, 1} ELSE {0}

\* _id_of: the default scope-id function of create
_id_of(schema) ==
    IF schema = TrueSchema \/ schema = FalseSchema THEN ""
    ELSE GetOr(schema, "$id", Str("")).v

\* id_of_ignore_ref(): the scope-id function the host passes
id_of_ignore_ref(schema) ==
    IF schema = TrueSchema \/ schema = FalseSchema \/ Has(schema, "$ref") THEN ""
    ELSE GetOr(schema, "$id", Str("")).v

id_of(cfg, schema) ==
    IF cfg = "host" THEN id_of_ignore_ref(schema) ELSE _id_of(schema)

\* ignore_ref_siblings: the applicable-keywords function the host passes
ignore_ref_siblings(schema) ==
    IF Has(schema, "$ref") /\ Get(schema, "$ref") # Null
    THEN << <<"$ref", Get(schema, "$ref")>> >>
    ELSE schema.v

\* methodcaller("items") by default
applicable_validators(cfg, schema) ==
    IF cfg = "host" THEN ignore_ref_siblings(schema) ELSE schema.v

(***************************************************************************)
(* Validator.iter_errors, Validator.descend and the keyword validators,    *)
(* as the events of a run to exhaustion from scope stack `stack`.  d is    *)
(* the nesting depth of the iter_errors call (0 for the consumer's own).   *)
(***************************************************************************)
RECURSIVE iter_errors(_, _, _, _, _)
RECURSIVE KeywordLoop(_, _, _, _, _, _, _)
RECURSIVE KeywordStep(_, _, _, _, _, _, _, _)
RECURSIVE DescendEachStep(_, _, _, _, _, _)
RECURSIVE AnyOfStep(_, _, _, _, _, _, _, _)
RECURSIVE OneOfStep(_, _, _, _, _, _, _, _)
RECURSIVE OneOfMoreValidStep(_, _, _, _, _, _, _, _, _)
RECURSIVE IfStep(_, _, _, _, _, _)
RECURSIVE CallValidator(_, _, _, _, _, _, _)
RECURSIVE CallImpl(_, _, _, _, _, _, _)
RECURSIVE DependenciesLoop(_, _, _, _, _, _)
RECURSIVE DependenciesStep(_, _, _, _, _, _, _)
RECURSIVE DynamicRefLoop(_, _, _, _, _, _, _)
RECURSIVE ListDuplicates_equal(_, _)
RECURSIVE PyEq(_, _)
RECURSIVE equal(_, _)
RECURSIVE DependentRequiredLoop(_, _, _)
RECURSIVE find_evaluated_property_keys_by_schema(_, _, _, _)
RECURSIVE KeywordClaims(_, _, _, _, _, _)
RECURSIVE UnevaluatedLoop(_, _, _, _, _, _, _, _)
RECURSIVE UnevaluatedStep(_, _, _, _, _, _, _, _, _)
RECURSIVE PatternJobs(_, _, _)
RECURSIVE ContainsLoop(_, _, _, _, _, _, _, _, _)
RECURSIVE ContainsStep(_, _, _, _, _, _, _, _, _, _)
RECURSIVE ContainsAnyStep(_, _, _, _, _, _, _)
RECURSIVE ContainsAny(_, _, _, _, _, _)
RECURSIVE descend(_, _, _, _, _, _, _)
RECURSIVE DescendEach(_, _, _, _, _)
RECURSIVE is_valid(_, _, _, _, _)
RECURSIVE AnyOfLoop(_, _, _, _, _, _, _)
RECURSIVE OneOfLoop(_, _, _, _, _, _, _)
RECURSIVE OneOfMoreValid(_, _, _, _, _, _, _, _)

\* variant: the false schema taken for an empty one
BoolSchemaErrorsFalseSilent(schema, instance) == <<>>

\* iter_errors on a boolean schema: nothing for true, one error for false
BoolSchemaErrors(schema, instance) ==
    IF schema = TrueSchema THEN <<>>
    ELSE <<Yield([ValidationError("False schema does not allow", <<instance>>, <<>>)
                    EXCEPT !.instance = instance])>>

\* if scope: resolver.push_scope(scope)
ScopeEntry(scope, d) == IF scope # "" THEN <<Push(scope, "iter_errors", d)>> ELSE <<>>

\* variant: the scope popped after the loop, outside any finally
IterFinallyNoTry(body, scope, d) ==
    IF Raised(body) \/ scope = "" THEN body ELSE body \o <<Pop("iter_errors", d)>>

\* try: <keywords> finally: if scope: resolver.pop_scope()
IterFinally(body, scope, d) ==
    TryFinally(body, IF scope # "" THEN <<Pop("iter_errors", d)>> ELSE <<>>)

\* error._set(validator=k, ...) and the schema-path prefix of iter_errors
StampError(k, instance, error) ==
    [error EXCEPT
        !.validator = IF @ = "unset" THEN k ELSE @,
        !.instance = IF @ = NoneV THEN instance ELSE @,
        !.schema_path = IF k \notin {"if", "$ref"} THEN <<Key(k)>> \o @ ELSE @]

\* for error in errors: skip None, stamp, yield
Stamp(k, instance, evs) ==
    LET NotNoneYield(ev) == ~(IsYield(ev) /\ ev.x = NoneV)
        kept == SelectSeq(evs, NotNoneYield)
    IN [j \in 1..Len(kept) |->
          IF IsYield(kept[j])
          THEN [kept[j] EXCEPT !.x = StampError(k, instance, @)]
          ELSE kept[j]]

\* the depth of nested iter_errors calls at which the interpreter's call
\* stack is used up (sys.getrecursionlimit, in units of nested calls)
RecursionLimit == 4

iter_errors(cfg, schema, instance, stack, d) ==
    IF d > RecursionLimit
    THEN <<Raise("RecursionError")>>   \* the call stack is the only backstop
    ELSE IF schema = TrueSchema \/ schema = FalseSchema
    THEN BoolSchemaErrors(schema, instance)
    ELSE IF ~IsObj(schema)
    THEN <<Raise("AttributeError")>>   \* id_of(_schema): no `get` on a non-mapping
    ELSE LET scope == id_of(cfg, schema)
             entry == ScopeEntry(scope, d)
             body == KeywordLoop(cfg, applicable_validators(cfg, schema), 1,
                                 schema, instance, StackAfter(stack, entry), d)
         IN entry \o IterFinally(body, scope, d)

\* for k, v in applicable_validators(_schema): ...
KeywordLoop(cfg, kws, j, schema, instance, stack, d) ==
    IF j > Len(kws) THEN <<>>
    ELSE KeywordStep(cfg, kws, j, schema, instance, stack, d,
                     IF VALIDATORS(cfg, kws[j][1]) = "none" THEN <<>>
                     ELSE <<Disp(kws[j][1], d)>> \o
                          Stamp(kws[j][1], instance,
                                CallValidator(cfg, kws[j][1], kws[j][2], instance,
                                              schema, stack, d)))

\* one keyword of the loop: evs is what its validator did
KeywordStep(cfg, kws, j, schema, instance, stack, d, evs) ==
    IF Raised(evs) THEN evs
    ELSE evs \o KeywordLoop(cfg, kws, j + 1, schema, instance, StackAfter(stack, evs), d)

\* the value descend yields for an error of the evolved validator
DescendYield(error) == NoneV

\* error.path.appendleft(path); error.schema_path.appendleft(schema_path)
PrependPaths(error, path, schema_path) ==
    [error EXCEPT
        !.path = IF path # NoneV THEN <<path>> \o @ ELSE @,
        !.schema_path = IF schema_path # NoneV THEN <<schema_path>> \o @ ELSE @]

\* for error in evolved.iter_errors(instance): ...; yield
DescendErrors(evs, path, schema_path) ==
    [j \in 1..Len(evs) |->
       IF IsYield(evs[j])
       THEN [evs[j] EXCEPT !.x = DescendYield(PrependPaths(@, path, schema_path))]
       ELSE evs[j]]

descend(cfg, instance, schema, path, schema_path, stack, d) ==
    DescendErrors(iter_errors(cfg, schema, instance, stack, d + 1), path, schema_path)

\* a sequence of `yield from validator.descend(...)`, one per job in order
DescendEach(cfg, jobs, j, stack, d) ==
    IF j > Len(jobs) THEN <<>>
    ELSE DescendEachStep(cfg, jobs, j, stack, d,
                         descend(cfg, jobs[j].instance, jobs[j].schema, jobs[j].path,
                                 jobs[j].schema_path, stack, d))

\* one `yield from validator.descend(...)`: evs is what the descent did
DescendEachStep(cfg, jobs, j, stack, d, evs) ==
    IF Raised(evs) THEN evs
    ELSE evs \o DescendEach(cfg, jobs, j + 1, StackAfter(stack, Effects(evs)), d)

Job(instance, schema, path, schema_path) ==
    [instance |-> instance, schema |-> schema, path |-> path,
     schema_path |-> schema_path]

\* what pulling one item from a stream and dropping it does: the events up to
\* the first yield, then the finally blocks pending there
PullOne(evs) ==
    LET fy == FirstYield(evs)
    IN IF fy = 0
       THEN [first |-> NoneV, raised |-> Raised(evs), evs |-> evs]
       ELSE [first |-> evs[fy].x, raised |-> FALSE,
             evs |-> SubSeq(evs, 1, fy - 1) \o evs[fy].cl]

\* error = next(self.iter_errors(instance), None); return error is None
IsValidResult(pulled) ==
    [valid |-> pulled.first = NoneV /\ ~pulled.raised, raised |-> pulled.raised,
     evs |-> pulled.evs]

\* what exhausting a stream does, with its first item
ExhaustAll(evs) ==
    [first |-> IF Yields(evs) = <<>> THEN NoneV ELSE Yields(evs)[1],
     raised |-> Raised(evs), evs |-> Effects(evs)]

\* variant: return not list(self.iter_errors(instance))
is_valid_exhaustive(cfg, schema, instance, stack, d) ==
    IsValidResult(ExhaustAll(iter_errors(cfg, schema, instance, stack, d)))

\* Validator.is_valid; the generator is dropped, hence closed, before it returns
is_valid(cfg, schema, instance, stack, d) ==
    IsValidResult(PullOne(iter_errors(cfg, schema, instance, stack, d)))

(***************************************************************************)
(* The keyword validators.                                                 *)
(***************************************************************************)
Min(a, b) == IF a < b THEN a ELSE b

\* type: any(is_type(instance, t) for t in ensure_list(tS)); is_type raises
\* UnknownType for a name the type table does not hold
type(tS, instance) ==
    LET names == IF IsArr(tS) THEN tS.v ELSE <<tS>>
        stops == {j \in 1..Len(names) :
                    names[j].v \notin KnownTypes \/ TypeHolds(instance, names[j].v)}
        first == CHOOSE j \in stops : \A h \in stops : j <= h
    IN IF stops = {}
       THEN <<Yield(ValidationError("is not of type", <<instance, tS>>, <<>>))>>
       ELSE IF names[first].v \notin KnownTypes
       THEN <<Raise("UnknownType")>>
       ELSE <<>>

required(r, instance) ==
    IF ~is_type(instance, "object") THEN <<>>
    ELSE LET Missing(prop) == ~Has(instance, prop.v)
             missing == SelectSeq(r.v, Missing)
         IN [j \in 1..Len(missing) |->
               Yield(ValidationError("is a required property", <<missing[j]>>, <<>>))]

\* bool is a subclass of int: True is 1 and False is 0 in comparisons
IsNumeric(x) == x.t \in {"number", "float", "boolean"}
NumVal(x) == IF x.t = "boolean" THEN (IF x.v THEN 1 ELSE 0) ELSE x.v

minimum(m, instance) ==
    IF ~is_type(instance, "number") THEN <<>>
    ELSE IF NumVal(instance) < m.v
    THEN <<Yield(ValidationError("is less than the minimum of", <<instance, m>>, <<>>))>>
    ELSE <<>>

maxItems(mI, instance) ==
    IF is_type(instance, "array") /\ Len(instance.v) > mI.v
    THEN <<Yield(ValidationError("is too long", <<instance>>, <<>>))>>
    ELSE <<>>

\* for prop, subschema in props.items(): if prop in instance: descend(...)
PropertiesJobs(props, instance) ==
    LET Present(pair) == Has(instance, pair[1])
        present == SelectSeq(props.v, Present)
    IN [j \in 1..Len(present) |->
          Job(Get(instance, present[j][1]), present[j][2],
              Key(present[j][1]), Key(present[j][1]))]

properties(cfg, props, instance, stack, d) ==
    IF ~is_type(instance, "object") THEN <<>>
    ELSE DescendEach(cfg, PropertiesJobs(props, instance), 1, stack, d)

\* for index in range(prefix, total): descend(instance[index], iS, path=index)
ItemsJobs(iS, instance, schema) ==
    LET prefix == Len(GetOr(schema, "prefixItems", Arr(<<>>)).v)
        total == Len(instance.v)
    IN [n \in 1..(total - prefix) |->
          Job(instance.v[prefix + n], iS, Idx(prefix + n - 1), NoneV)]

items(cfg, iS, instance, schema, stack, d) ==
    IF ~is_type(instance, "array") THEN <<>>
    ELSE LET prefix == Len(GetOr(schema, "prefixItems", Arr(<<>>)).v)
             total == Len(instance.v)
         IN IF iS = FalseSchema /\ total > prefix
            THEN <<Yield(ValidationError("Expected at most", <<Num(prefix), Num(total)>>, <<>>))>>
            ELSE DescendEach(cfg, ItemsJobs(iS, instance, schema), 1, stack, d)

\* for (index, item), subschema in zip(enumerate(instance), pItems): descend(...)
PrefixItemsJobs(pItems, instance) ==
    [n \in 1..Min(Len(instance.v), Len(pItems.v)) |->
        Job(instance.v[n], pItems.v[n], Idx(n - 1), Idx(n - 1))]

prefixItems(cfg, pItems, instance, stack, d) ==
    IF ~is_type(instance, "array") THEN <<>>
    ELSE DescendEach(cfg, PrefixItemsJobs(pItems, instance), 1, stack, d)

items_draft6_draft7_draft201909(cfg, iS, instance, stack, d) ==
    IF ~is_type(instance, "array") THEN <<>>
    ELSE IF is_type(iS, "array")
    THEN LET jobs == [n \in 1..Min(Len(instance.v), Len(iS.v)) |->
                        Job(instance.v[n], iS.v[n], Idx(n - 1), Idx(n - 1))]
         IN DescendEach(cfg, jobs, 1, stack, d)
    ELSE LET jobs == [n \in 1..Len(instance.v) |->
                        Job(instance.v[n], iS, Idx(n - 1), NoneV)]
         IN DescendEach(cfg, jobs, 1, stack, d)

\* for index, subschema in enumerate(aO): descend(instance, subschema, schema_path=index)
AllOfJobs(aO, instance) ==
    [n \in 1..Len(aO.v) |-> Job(instance, aO.v[n], NoneV, Idx(n - 1))]

allOf(cfg, aO, instance, stack, d) ==
    DescendEach(cfg, AllOfJobs(aO, instance), 1, stack, d)

\* anyOf from branch j on, all_errors collected so far
AnyOfLoop(cfg, aO, j, all_errors, instance, stack, d) ==
    IF j > Len(aO.v)
    THEN <<Yield(ValidationError("is not valid under any of the given schemas",
                                 <<instance>>, all_errors))>>
    ELSE AnyOfStep(cfg, aO, j, all_errors, instance, stack, d,
                   descend(cfg, instance, aO.v[j], NoneV, Idx(j - 1), stack, d))

\* one branch of anyOf: run is the descent into it
AnyOfStep(cfg, aO, j, all_errors, instance, stack, d, run) ==
    IF Raised(run) \/ Yields(run) = <<>> THEN Effects(run)
    ELSE Effects(run) \o
         AnyOfLoop(cfg, aO, j + 1, all_errors \o Yields(run), instance,
                   StackAfter(stack, Effects(run)), d)

anyOf(cfg, aO, instance, stack, d) ==
    AnyOfLoop(cfg, aO, 1, <<>>, instance, stack, d)

\* more_valid: the branches after the first valid one that is_valid accepts
OneOfMoreValid(cfg, oO, j, more_valid, first_valid, instance, stack, d) ==
    IF j > Len(oO.v)
    THEN IF more_valid # <<>>
         THEN <<Yield(ValidationError("is valid under each of",
                                      <<instance>> \o more_valid \o <<first_valid>>, <<>>))>>
         ELSE <<>>
    ELSE OneOfMoreValidStep(cfg, oO, j, more_valid, first_valid, instance, stack, d,
                            is_valid(cfg, oO.v[j], instance, stack, d + 1))

\* one later branch of oneOf: iv is the outcome of is_valid on it
OneOfMoreValidStep(cfg, oO, j, more_valid, first_valid, instance, stack, d, iv) ==
    IF iv.raised THEN iv.evs
    ELSE iv.evs \o
         OneOfMoreValid(cfg, oO, j + 1,
                        IF iv.valid THEN Append(more_valid, oO.v[j]) ELSE more_valid,
                        first_valid, instance, StackAfter(stack, iv.evs), d)

\* oneOf from branch j on, all_errors collected so far
OneOfLoop(cfg, oO, j, all_errors, instance, stack, d) ==
    IF j > Len(oO.v)
    THEN <<Yield(ValidationError("is not valid under any of the given schemas",
                                 <<instance>>, all_errors))>>
    ELSE OneOfStep(cfg, oO, j, all_errors, instance, stack, d,
                   descend(cfg, instance, oO.v[j], NoneV, Idx(j - 1), stack, d))

\* one branch of oneOf up to the first valid one: run is the descent into it
OneOfStep(cfg, oO, j, all_errors, instance, stack, d, run) ==
    IF Raised(run) THEN Effects(run)
    ELSE IF Yields(run) = <<>>
    THEN Effects(run) \o
         OneOfMoreValid(cfg, oO, j + 1, <<>>, oO.v[j], instance,
                        StackAfter(stack, Effects(run)), d)
    ELSE Effects(run) \o
         OneOfLoop(cfg, oO, j + 1, all_errors \o Yields(run), instance,
                   StackAfter(stack, Effects(run)), d)

oneOf(cfg, oO, instance, stack, d) ==
    OneOfLoop(cfg, oO, 1, <<>>, instance, stack, d)

\* the body of not_ after is_valid returned iv
NotStep(not_schema, instance, iv) ==
    IF iv.raised THEN iv.evs
    ELSE IF iv.valid
    THEN iv.evs \o <<Yield(ValidationError("should not be valid under",
                                           <<instance, not_schema>>, <<>>))>>
    ELSE iv.evs

not_(cfg, not_schema, instance, stack, d) ==
    NotStep(not_schema, instance, is_valid(cfg, not_schema, instance, stack, d + 1))

\* the body of if_ after is_valid returned iv
IfStep(cfg, instance, schema, stack, d, iv) ==
    IF iv.raised THEN iv.evs
    ELSE IF iv.valid
    THEN IF Has(schema, "then")
         THEN iv.evs \o descend(cfg, instance, Get(schema, "then"), NoneV,
                                Key("then"), StackAfter(stack, iv.evs), d)
         ELSE iv.evs
    ELSE IF Has(schema, "else")
    THEN iv.evs \o descend(cfg, instance, Get(schema, "else"), NoneV,
                           Key("else"), StackAfter(stack, iv.evs), d)
    ELSE iv.evs

if_(cfg, if_schema, instance, schema, stack, d) ==
    IfStep(cfg, instance, schema, stack, d,
           is_valid(cfg, if_schema, instance, stack, d + 1))

\* variant: the scope popped after the descent, outside any finally
RefFinallyNoTry(body, d) ==
    IF Raised(body) THEN body ELSE body \o <<Pop("$ref", d)>>

\* try: yield from validator.descend(instance, resolved)
\* finally: validator.resolver.pop_scope()
RefFinally(body, d) == TryFinally(body, <<Pop("$ref", d)>>)

\* a resolution failure leaves ref as the resolver's exception
RefUnresolved(url) == <<Raise("RefResolutionError")>>

\* variant: a reference to a scope that is already being resolved is skipped
ref_cycle_checked(cfg, r, instance, stack, d) ==
    LET res == Resolve(stack, r.v)
    IN IF ~res.ok THEN RefUnresolved(res.scope)
       ELSE IF \E j \in 1..Len(stack) : stack[j] = res.scope THEN <<>>
       ELSE <<Push(res.scope, "$ref", d)>> \o
            RefFinally(descend(cfg, instance, res.schema, NoneV, NoneV,
                               Append(stack, res.scope), d), d)

\* $ref: jsonschema's RefResolver has `resolve`, so the else branch runs
ref(cfg, r, instance, stack, d) ==
    LET res == Resolve(stack, r.v)
    IN IF ~res.ok THEN RefUnresolved(res.scope)
       ELSE <<Push(res.scope, "$ref", d)>> \o
            RefFinally(descend(cfg, instance, res.schema, NoneV, NoneV,
                               Append(stack, res.scope), d), d)

\* variant: the scan goes on after the 'too many' error
ContainsNoReturn(rest) == rest

\* `return` after the 'too many' error: the rest of the scan does not run
ContainsReturn(rest) == <<>>

\* contains from element j on, `matches` elements matched so far
ContainsLoop(cfg, cS, instance, j, matches, min_contains, max_contains, stack, d) ==
    IF j > Len(instance.v)
    THEN IF matches < min_contains
         THEN IF matches = 0
              THEN <<Yield(ValidationError("does not contain items matching the given schema",
                                           <<instance>>, <<>>))>>
              ELSE <<Yield([ValidationError("Too few items match the given schema",
                                            <<Num(min_contains), Num(matches)>>, <<>>)
                             EXCEPT !.validator = "minContains"])>>
         ELSE <<>>
    ELSE ContainsStep(cfg, cS, instance, j, matches, min_contains, max_contains, stack, d,
                      is_valid(cfg, cS, instance.v[j], stack, d + 1))

\* one element of the loop of contains: iv is the outcome of is_valid(element)
ContainsStep(cfg, cS, instance, j, matches, min_contains, max_contains, stack, d, iv) ==
    IF iv.raised THEN iv.evs
    ELSE IF iv.valid /\ matches + 1 > max_contains
    THEN iv.evs \o
         <<Yield([ValidationError("Too many items match the given schema",
                                  <<Num(max_contains)>>, <<>>)
                   EXCEPT !.validator = "maxContains"])>>
         \o ContainsReturn(ContainsLoop(cfg, cS, instance, j + 1, matches + 1,
                                        min_contains, max_contains,
                                        StackAfter(stack, iv.evs), d))
    ELSE iv.evs \o
         ContainsLoop(cfg, cS, instance, j + 1,
                      IF iv.valid THEN matches + 1 ELSE matches,
                      min_contains, max_contains, StackAfter(stack, iv.evs), d)

contains(cfg, cS, instance, schema, stack, d) ==
    IF ~is_type(instance, "array") THEN <<>>
    ELSE ContainsLoop(cfg, cS, instance, 1, 0,
                      GetOr(schema, "minContains", Num(1)).v,
                      GetOr(schema, "maxContains", Num(Len(instance.v))).v,
                      stack, d)

\* any(validator.evolve(schema=contains).is_valid(element) for element in instance)
ContainsAny(cfg, cS, instance, j, stack, d) ==
    IF j > Len(instance.v)
    THEN <<Yield(ValidationError("None of are valid under the given schema",
                                 <<instance>>, <<>>))>>
    ELSE ContainsAnyStep(cfg, cS, instance, j, stack, d,
                         is_valid(cfg, cS, instance.v[j], stack, d + 1))

\* one element of any(...): iv is the outcome of is_valid(element)
ContainsAnyStep(cfg, cS, instance, j, stack, d, iv) ==
    IF iv.raised \/ iv.valid THEN iv.evs
    ELSE iv.evs \o ContainsAny(cfg, cS, instance, j + 1, StackAfter(stack, iv.evs), d)

contains_draft6_draft7(cfg, cS, instance, stack, d) ==
    IF ~is_type(instance, "array") THEN <<>>
    ELSE ContainsAny(cfg, cS, instance, 1, stack, d)

\* the keys of an object, in its own order
Keys(obj) == [j \in 1..Len(obj.v) |-> obj.v[j][1]]

\* the alphabet of property names, in sorted() order
KeyOrder == <<"a", "b", "bc", "c">>

\* sorted(keys)
Sorted(keys) ==
    LET In(key) == \E j \in 1..Len(keys) : keys[j] = key
    IN SelectSeq(KeyOrder, In)

\* for each pattern, for each (k, v) of the instance that it matches
PatternJobs(pProps, j, instance) ==
    IF j > Len(pProps.v) THEN <<>>
    ELSE LET Hit(pair) == ReSearch(pProps.v[j][1], pair[1])
             hits == SelectSeq(instance.v, Hit)
         IN [n \in 1..Len(hits) |->
               Job(hits[n][2], pProps.v[j][2], Key(hits[n][1]), Key(pProps.v[j][1]))]
            \o PatternJobs(pProps, j + 1, instance)

patternProperties(cfg, pProps, instance, stack, d) ==
    IF ~is_type(instance, "object") THEN <<>>
    ELSE DescendEach(cfg, PatternJobs(pProps, 1, instance), 1, stack, d)

\* the properties of the instance that neither `properties` nor
\* `patternProperties` of the schema names, in the instance's order
find_additional_properties(instance, schema) ==
    LET props == GetOr(schema, "properties", Obj(<<>>))
        patterns == Keys(GetOr(schema, "patternProperties", Obj(<<>>)))
        Extra(p) == ~Has(props, p) /\ ~(patterns # <<>> /\ ReSearchAny(patterns, p))
    IN SelectSeq(Keys(instance), Extra)

\* one error naming every extra property and the patterns
ExtrasErrors(extras, schema) ==
    <<Yield(ValidationError("not match any of the regexes",
                            [j \in 1..Len(Sorted(extras)) |-> Str(Sorted(extras)[j])]
                            \o <<Str("regexes")>>
                            \o [j \in 1..Len(Sorted(Keys(Get(schema, "patternProperties")))) |->
                                  Str(Sorted(Keys(Get(schema, "patternProperties")))[j])],
                            <<>>))>>

\* for extra in extras: yield ValidationError(error % extra, path=[extra])
ExtraErrors(extras) ==
    [j \in 1..Len(extras) |->
        Yield([ValidationError("Additional properties are not allowed",
                               <<Str(extras[j])>>, <<>>)
                 EXCEPT !.path = <<Key(extras[j])>>])]

additionalProperties(cfg, aP, instance, schema, stack, d) ==
    IF ~is_type(instance, "object") THEN <<>>
    ELSE LET extras == SetIter(find_additional_properties(instance, schema))
         IN IF is_type(aP, "object")
            THEN DescendEach(cfg,
                             [j \in 1..Len(extras) |->
                                Job(Get(instance, extras[j]), aP, Key(extras[j]), NoneV)],
                             1, stack, d)
            ELSE IF aP = FalseSchema /\ extras # <<>>
            THEN IF Has(schema, "patternProperties")
                 THEN ExtrasErrors(extras, schema)
                 ELSE ExtraErrors(extras)
            ELSE <<>>

\* JsonSchema.validate_additional_properties: the statements of
\* additionalProperties, raising jsonschema.ValidationError
validate_additional_properties(cfg, aP, instance, schema, stack, d) ==
    additionalProperties(cfg, aP, instance, schema, stack, d)

\* a run that ends without an error and without an exception
NoErrors(run) == ~Raised(run) /\ Yields(run) = <<>>

\* the instance has no error under the sub-schema
IsValidUnder(cfg, subschema, instance, stack) ==
    NoErrors(iter_errors(cfg, subschema, instance, stack, 1))

\* the keys of the instance that keyword k of the schema claims
KeywordClaims(cfg, k, v, instance, schema, stack) ==
    LET keys == {Keys(instance)[j] : j \in 1..Len(instance.v)}
        Branches(select(_)) ==
            UNION {IF select(v.v[j])
                   THEN find_evaluated_property_keys_by_schema(cfg, instance, v.v[j], stack)
                   ELSE {} : j \in 1..Len(v.v)}
        Every(subschema) == TRUE
        Passes(subschema) == IsValidUnder(cfg, subschema, instance, stack)
    IN CASE k = "properties" ->
              {key \in keys : Has(v, key)
                              /\ IsValidUnder(cfg, Get(v, key), Get(instance, key), stack)}
         [] k = "patternProperties" ->
              {key \in keys : \E j \in 1..Len(v.v) :
                                 /\ ReSearch(v.v[j][1], key)
                                 /\ IsValidUnder(cfg, v.v[j][2], Get(instance, key), stack)}
         [] k = "additionalProperties" ->
              {key \in keys :
                  /\ \E j \in 1..Len(find_additional_properties(instance, schema)) :
                        find_additional_properties(instance, schema)[j] = key
                  /\ IsValidUnder(cfg, v, Get(instance, key), stack)}
         [] k = "allOf" -> Branches(Every)
         [] k \in {"anyOf", "oneOf"} -> Branches(Passes)
         [] k = "if" ->
              IF IsValidUnder(cfg, v, instance, stack)
              THEN IF Has(schema, "then")
                   THEN find_evaluated_property_keys_by_schema(cfg, instance,
                                                               Get(schema, "then"), stack)
                   ELSE {}
              ELSE IF Has(schema, "else")
              THEN find_evaluated_property_keys_by_schema(cfg, instance,
                                                          Get(schema, "else"), stack)
              ELSE {}
         [] k = "$ref" ->
              IF Resolve(stack, v.v).ok
              THEN find_evaluated_property_keys_by_schema(
                       cfg, instance, Resolve(stack, v.v).schema,
                       Append(stack, Resolve(stack, v.v).scope))
              ELSE {}
         [] OTHER -> {}

\* the Evaluated-Set Tracker for object keys
find_evaluated_property_keys_by_schema(cfg, instance, schema, stack) ==
    IF ~IsObj(schema) \/ ~IsObj(instance) THEN {}
    ELSE UNION {KeywordClaims(cfg, schema.v[j][1], schema.v[j][2], instance, schema, stack) :
                   j \in 1..Len(schema.v)}

\* variant: every property taken for unevaluated
NothingEvaluated(cfg, instance, schema, stack) == {}

\* evaluated_keys = find_evaluated_property_keys_by_schema(validator, instance, schema)
EvaluatedKeys(cfg, instance, schema, stack) ==
    find_evaluated_property_keys_by_schema(cfg, instance, schema, stack)

\* the error unevaluatedProperties ends with, if any
UnevaluatedError(uProps, unevaluated_keys) ==
    IF unevaluated_keys = <<>> THEN <<>>
    ELSE IF uProps = FalseSchema
    THEN <<Yield(ValidationError("Unevaluated properties are not allowed",
                                 unevaluated_keys, <<>>))>>
    ELSE <<Yield(ValidationError("Unevaluated properties are not valid under the given schema",
                                 unevaluated_keys, <<>>))>>

\* for prop in instance: if prop not in evaluated_keys:
\*     for _ in descend(instance[prop], uProps, path=prop, schema_path=prop):
\*         unevaluated_keys.append(prop)
UnevaluatedLoop(cfg, uProps, instance, keys, j, unevaluated_keys, stack, d) ==
    IF j > Len(keys) THEN UnevaluatedError(uProps, unevaluated_keys)
    ELSE UnevaluatedStep(cfg, uProps, instance, keys, j, unevaluated_keys, stack, d,
                         descend(cfg, Get(instance, keys[j]), uProps, Key(keys[j]),
                                 Key(keys[j]), stack, d))

\* one turn of the loop, `run` being the descent for the j-th key
UnevaluatedStep(cfg, uProps, instance, keys, j, unevaluated_keys, stack, d, run) ==
    IF Raised(run) THEN Effects(run)
    ELSE Effects(run) \o
         UnevaluatedLoop(cfg, uProps, instance, keys, j + 1,
                         unevaluated_keys \o [n \in 1..Len(Yields(run)) |-> Str(keys[j])],
                         StackAfter(stack, Effects(run)), d)

\* the properties of the instance outside the evaluated keys, in its order
NotEvaluated(instance, evaluated_keys) ==
    LET Outside(prop) == prop \notin evaluated_keys
    IN SelectSeq(Keys(instance), Outside)

unevaluatedProperties(cfg, uProps, instance, schema, stack, d) ==
    IF ~is_type(instance, "object") THEN <<>>
    ELSE UnevaluatedLoop(cfg, uProps, instance,
                         NotEvaluated(instance, EvaluatedKeys(cfg, instance, schema, stack)),
                         1, <<>>, stack, d)

\* len(s) for the strings the instances hold
StrLen(s) == IF s = "" THEN 0 ELSE IF s = "bc" THEN 2 ELSE 1

\* Python's a == b
PyEq(a, b) ==
    IF IsNumeric(a) /\ IsNumeric(b) THEN NumVal(a) = NumVal(b)
    ELSE IF a.t # b.t THEN FALSE
    ELSE IF a.t = "array"
    THEN /\ Len(a.v) = Len(b.v)
         /\ \A j \in 1..Len(a.v) : PyEq(a.v[j], b.v[j])
    ELSE IF a.t = "object"
    THEN /\ Len(a.v) = Len(b.v)
         /\ \A j \in 1..Len(a.v) :
               Has(b, a.v[j][1]) /\ PyEq(a.v[j][2], Get(b, a.v[j][1]))
    ELSE a.v = b.v

\* `x in seq`
PyIn(x, seq) == \E j \in 1..Len(seq) : PyEq(x, seq[j])

\* unbool(element, true=object(), false=object())
unbool(element) ==
    IF element.t = "boolean" THEN [t |-> "sentinel", v |-> element.v] ELSE element

\* equal(one, two)
equal(one, two) ==
    IF one.t = "string" \/ two.t = "string" THEN PyEq(one, two)
    ELSE IF one.t = "array" /\ two.t = "array"
    THEN /\ Len(one.v) = Len(two.v)
         /\ \A j \in 1..Len(one.v) : equal(one.v[j], two.v[j])
    ELSE IF one.t = "object" /\ two.t = "object"
    THEN /\ Len(one.v) = Len(two.v)
         /\ \A j \in 1..Len(one.v) :
               Has(two, one.v[j][1]) /\ equal(one.v[j][2], Get(two, one.v[j][1]))
    ELSE PyEq(unbool(one), unbool(two))

\* uniq(container): no two elements are equal
uniq(container) ==
    \A i \in 1..Len(container.v) : \A j \in 1..Len(container.v) :
        i < j => ~equal(container.v[i], container.v[j])

exclusiveMinimum(m, instance) ==
    IF ~is_type(instance, "number") THEN <<>>
    ELSE IF NumVal(instance) <= m.v
    THEN <<Yield(ValidationError("is less than or equal to the minimum of",
                                 <<instance, m>>, <<>>))>>
    ELSE <<>>

exclusiveMaximum(m, instance) ==
    IF ~is_type(instance, "number") THEN <<>>
    ELSE IF NumVal(instance) >= m.v
    THEN <<Yield(ValidationError("is greater than or equal to the maximum of",
                                 <<instance, m>>, <<>>))>>
    ELSE <<>>

maximum(m, instance) ==
    IF ~is_type(instance, "number") THEN <<>>
    ELSE IF NumVal(instance) > m.v
    THEN <<Yield(ValidationError("is greater than the maximum of", <<instance, m>>, <<>>))>>
    ELSE <<>>

\* failed = instance % dB, or int(quotient) != quotient for a float dB; both
\* say whether the whole-numbered instance is a multiple of dB
multipleOf(dB, instance) ==
    IF ~is_type(instance, "number") THEN <<>>
    ELSE IF dB.v = 0 THEN <<Raise("ZeroDivisionError")>>
    ELSE IF NumVal(instance) % dB.v # 0
    THEN <<Yield(ValidationError("is not a multiple of", <<instance, dB>>, <<>>))>>
    ELSE <<>>

minItems(mI, instance) ==
    IF is_type(instance, "array") /\ Len(instance.v) < mI.v
    THEN <<Yield(ValidationError("is too short", <<instance>>, <<>>))>>
    ELSE <<>>

\* uI and is_type(instance, "array") and not uniq(instance)
uniqueItems(uI, instance) ==
    IF uI = TrueSchema /\ is_type(instance, "array") /\ ~uniq(instance)
    THEN <<Yield(ValidationError("has non-unique elements", <<instance>>, <<>>))>>
    ELSE <<>>

pattern(patrn, instance) ==
    IF is_type(instance, "string") /\ ~ReSearch(patrn.v, instance.v)
    THEN <<Yield(ValidationError("does not match", <<instance, patrn>>, <<>>))>>
    ELSE <<>>

minLength(mL, instance) ==
    IF is_type(instance, "string") /\ StrLen(instance.v) < mL.v
    THEN <<Yield(ValidationError("is too short", <<instance>>, <<>>))>>
    ELSE <<>>

maxLength(mL, instance) ==
    IF is_type(instance, "string") /\ StrLen(instance.v) > mL.v
    THEN <<Yield(ValidationError("is too long", <<instance>>, <<>>))>>
    ELSE <<>>

minProperties(mP, instance) ==
    IF is_type(instance, "object") /\ Len(instance.v) < mP.v
    THEN <<Yield(ValidationError("does not have enough properties", <<instance>>, <<>>))>>
    ELSE <<>>

maxProperties(mP, instance) ==
    IF ~is_type(instance, "object") THEN <<>>
    ELSE IF is_type(instance, "object") /\ Len(instance.v) > mP.v
    THEN <<Yield(ValidationError("has too many properties", <<instance>>, <<>>))>>
    ELSE <<>>

\* for prop in instance: yield from descend(instance=prop, schema=pNames)
propertyNames(cfg, pNames, instance, stack, d) ==
    IF ~is_type(instance, "object") THEN <<>>
    ELSE DescendEach(cfg, [j \in 1..Len(instance.v) |->
                             [instance |-> Str(instance.v[j][1]), schema |-> pNames,
                              path |-> NoneV, schema_path |-> NoneV]],
                     1, stack, d)

\* for prop, dependency in dR.items(): if prop in instance:
\*     for each in dependency: if each not in instance: yield error
DependentRequiredLoop(dR, instance, j) ==
    IF j > Len(dR.v) THEN <<>>
    ELSE LET prop == dR.v[j][1]
             dependency == dR.v[j][2].v
             NotIn(each) == ~Has(instance, each.v)
             missing == SelectSeq(dependency, NotIn)
         IN (IF Has(instance, prop)
             THEN [n \in 1..Len(missing) |->
                     Yield(ValidationError("is a dependency of",
                                           <<missing[n], Str(prop)>>, <<>>))]
             ELSE <<>>)
            \o DependentRequiredLoop(dR, instance, j + 1)

dependentRequired(dR, instance) ==
    IF ~is_type(instance, "object") THEN <<>>
    ELSE DependentRequiredLoop(dR, instance, 1)

\* for prop, dependency in dSchemas.items(): if prop in instance:
\*     yield from descend(instance, dependency, schema_path=prop)
dependentSchemas(cfg, dSchemas, instance, stack, d) ==
    IF ~is_type(instance, "object") THEN <<>>
    ELSE LET Present(pair) == Has(instance, pair[1])
             present == SelectSeq(dSchemas.v, Present)
         IN DescendEach(cfg, [j \in 1..Len(present) |->
                                [instance |-> instance, schema |-> present[j][2],
                                 path |-> NoneV, schema_path |-> Key(present[j][1])]],
                        1, stack, d)

\* len(schema.get("items", [])): a boolean has no length
additionalItems(cfg, aI, instance, schema, stack, d) ==
    IF ~is_type(instance, "array") \/ is_type(GetOr(schema, "items", Obj(<<>>)), "object")
    THEN <<>>
    ELSE IF ~IsArr(GetOr(schema, "items", Arr(<<>>))) THEN <<Raise("TypeError")>>
    ELSE LET len_items == Len(GetOr(schema, "items", Arr(<<>>)).v)
         IN IF is_type(aI, "object")
            THEN DescendEach(cfg, [j \in 1..(IF Len(instance.v) > len_items
                                            THEN Len(instance.v) - len_items ELSE 0) |->
                                     [instance |-> instance.v[len_items + j], schema |-> aI,
                                      path |-> Idx(len_items + j - 1),
                                      schema_path |-> NoneV]],
                             1, stack, d)
            ELSE IF aI = FalseSchema /\ Len(instance.v) > len_items
            THEN <<Yield(ValidationError("Additional items are not allowed",
                                         SubSeq(instance.v, len_items + 1, Len(instance.v)),
                                         <<>>))>>
            ELSE <<>>

\* the ListDuplicates rule object (self)
Self == [t |-> "rule", v |-> "E3037"]
\* the default arguments true=object() and false=object()
SentinelTrue == [t |-> "sentinel", v |-> TRUE]
SentinelFalse == [t |-> "sentinel", v |-> FALSE]

\* def _unbool(element, true=object(), false=object()): it has no self
\* parameter, so in self._unbool(x) element is the rule and true is x
ListDuplicates_unbool(element, true, false) ==
    IF element.t = "boolean" /\ element.v THEN true
    ELSE IF element.t = "boolean" /\ ~element.v THEN false
    ELSE element

\* ListDuplicates._equal(one, two)
ListDuplicates_equal(one, two) ==
    IF one.t = "string" \/ two.t = "string" THEN PyEq(one, two)
    ELSE IF one.t = "array" /\ two.t = "array"
    THEN /\ Len(one.v) = Len(two.v)
         /\ \A j \in 1..Len(one.v) : ListDuplicates_equal(one.v[j], two.v[j])
    ELSE IF one.t = "object" /\ two.t = "object"
    THEN /\ Len(one.v) = Len(two.v)
         /\ \A j \in 1..Len(one.v) :
               Has(two, one.v[j][1])
               /\ ListDuplicates_equal(one.v[j][2], Get(two, one.v[j][1]))
    ELSE PyEq(ListDuplicates_unbool(Self, one, SentinelFalse),
              ListDuplicates_unbool(Self, two, SentinelFalse))

\* ListDuplicates._uniq(container): sorted(self._unbool(i) for i in container)
\* holds the rule once per element, in any order or not sorted at all (the
\* fallback scans the same values), and the scan compares neighbours
ListDuplicates_uniq(container) ==
    LET sort == [j \in 1..Len(container.v) |->
                   ListDuplicates_unbool(Self, container.v[j], SentinelFalse)]
    IN ~\E j \in 1..(Len(sort) - 1) : ListDuplicates_equal(sort[j], sort[j + 1])

\* ListDuplicates.validate(validator, uI, instance, schema)
ListDuplicates_validate(uI, instance) ==
    IF uI = TrueSchema /\ is_type(instance, "array") /\ ~ListDuplicates_uniq(instance)
    THEN <<Yield(ValidationError("has non-unique elements", <<instance>>, <<>>))>>
    ELSE <<>>

\* all(unbooled != unbool(each) for each in enums)
NoneUnbooledEqual(instance, enums) ==
    \A j \in 1..Len(enums.v) : ~PyEq(unbool(instance), unbool(enums.v[j]))

EnumError(instance, enums) ==
    <<Yield(ValidationError("is not one of", <<instance, enums>>, <<>>))>>

\* variant: membership by == alone, under which True == 1
enum_by_eq(enums, instance) ==
    IF ~PyIn(instance, enums.v) THEN EnumError(instance, enums) ELSE <<>>

enum(enums, instance) ==
    IF PyIn(instance, <<Num(0), Num(1)>>)
    THEN IF NoneUnbooledEqual(instance, enums) THEN EnumError(instance, enums) ELSE <<>>
    ELSE IF ~PyIn(instance, enums.v) THEN EnumError(instance, enums)
    ELSE <<>>

\* AllowedValue._unbool(self, element, true=object(), false=object())
AllowedValue_unbool(element, true, false) ==
    IF element.t = "boolean" /\ element.v THEN true
    ELSE IF element.t = "boolean" /\ ~element.v THEN false
    ELSE element

\* AllowedValue.enum; an instance {"Ref": v} is left to the child rule W2030,
\* whose errors are not those of this keyword
AllowedValue_enum(enums, instance) ==
    IF IsObj(instance) /\ Len(instance.v) = 1 /\ instance.v[1][1] = "Ref" THEN <<>>
    ELSE IF PyEq(instance, Num(0)) \/ PyEq(instance, Num(1))
    THEN IF \A j \in 1..Len(enums.v) :
              ~PyEq(AllowedValue_unbool(instance, SentinelTrue, SentinelFalse),
                    AllowedValue_unbool(enums.v[j], SentinelTrue, SentinelFalse))
         THEN EnumError(instance, enums) ELSE <<>>
    ELSE IF ~PyIn(instance, enums.v) THEN EnumError(instance, enums)
    ELSE <<>>

\* variant: the scope stack walked from its top, the innermost scope first
ScopesInnermostFirst(stack) == Reverse(stack)

\* for url in validator.resolver._scopes_stack: a list, walked from its
\* first element, the scope the resolver was created with
ScopesStack(stack) == stack

\* with validator.resolver.resolving(url) as subschema: <descend>
Resolving(cfg, res, instance, stack, d) ==
    <<Push(res.scope, "$dynamicRef", d)>> \o
    TryFinally(descend(cfg, instance, res.schema, NoneV, NoneV,
                       Append(stack, res.scope), d),
               <<Pop("$dynamicRef", d)>>)

\* "$dynamicAnchor" in subschema and fragment == subschema["$dynamicAnchor"]
AnchorMatches(subschema, fragment) ==
    /\ IsObj(subschema) /\ Has(subschema, "$dynamicAnchor")
    /\ Get(subschema, "$dynamicAnchor") = Str(fragment)

\* the for ... else of dynamicRef from the j-th url on
DynamicRefLoop(cfg, dR, urls, j, instance, stack, d) ==
    LET res == IF j > Len(urls) THEN Resolve(stack, dR.v)
               ELSE Resolve(stack, UrlJoin(urls[j], dR.v))
    IN IF ~res.ok THEN RefUnresolved(res.scope)
       ELSE IF j > Len(urls) \/ AnchorMatches(res.schema, Fragment(dR.v))
       THEN Resolving(cfg, res, instance, stack, d)
       ELSE <<Push(res.scope, "$dynamicRef", d), Pop("$dynamicRef", d)>> \o
            DynamicRefLoop(cfg, dR, urls, j + 1, instance, stack, d)

dynamicRef(cfg, dR, instance, stack, d) ==
    DynamicRefLoop(cfg, dR, ScopesStack(stack), 1, instance, stack, d)

\* const(validator, c, instance, schema)
const(c, instance) ==
    IF ~equal(instance, c)
    THEN <<Yield(ValidationError("was expected", <<c>>, <<>>))>>
    ELSE <<>>

\* jsonschema/_validators.py, dependencies_draft4_draft6_draft7: a docstring
\* and no body, the call returns None
_validators_dependencies_draft4_draft6_draft7(dependencies, instance) == <<>>

\* for each in dependency: if each not in instance: yield ValidationError
MissingDependencies(property, dependency, instance) ==
    LET NotIn(each) == ~Has(instance, each.v)
        missing == SelectSeq(dependency, NotIn)
    IN [n \in 1..Len(missing) |->
          Yield(ValidationError("is a dependency of", <<missing[n], Str(property)>>, <<>>))]

\* for property, dependency in dependencies.items(): ...
DependenciesLoop(cfg, dependencies, instance, j, stack, d) ==
    IF j > Len(dependencies.v) THEN <<>>
    ELSE IF ~Has(instance, dependencies.v[j][1])
    THEN DependenciesLoop(cfg, dependencies, instance, j + 1, stack, d)
    ELSE IF is_type(dependencies.v[j][2], "array")
    THEN MissingDependencies(dependencies.v[j][1], dependencies.v[j][2].v, instance)
         \o DependenciesLoop(cfg, dependencies, instance, j + 1, stack, d)
    ELSE DependenciesStep(cfg, dependencies, instance, j, stack, d,
                          descend(cfg, instance, dependencies.v[j][2], NoneV,
                                  Key(dependencies.v[j][1]), stack, d))

\* one `yield from validator.descend(...)`: evs is what the descent did
DependenciesStep(cfg, dependencies, instance, j, stack, d, evs) ==
    IF Raised(evs) THEN evs
    ELSE evs \o DependenciesLoop(cfg, dependencies, instance, j + 1,
                                 StackAfter(stack, Effects(evs)), d)

\* schema/_legacy_validators.py, dependencies_draft4_draft6_draft7
dependencies_draft4_draft6_draft7(cfg, dependencies, instance, stack, d) ==
    IF ~is_type(instance, "object") THEN <<>>
    ELSE DependenciesLoop(cfg, dependencies, instance, 1, stack, d)

\* impl(validator, v, instance, schema): the keyword validator named impl
CallImpl(cfg, impl, v, instance, schema, stack, d) ==
       CASE impl = "type" -> type(v, instance)
         [] impl = "required" -> required(v, instance)
         [] impl = "minimum" -> minimum(v, instance)
         [] impl = "maxItems" -> maxItems(v, instance)
         [] impl = "properties" -> properties(cfg, v, instance, stack, d)
         [] impl = "items" -> items(cfg, v, instance, schema, stack, d)
         [] impl = "prefixItems" -> prefixItems(cfg, v, instance, stack, d)
         [] impl = "items_draft6_draft7_draft201909" ->
                items_draft6_draft7_draft201909(cfg, v, instance, stack, d)
         [] impl = "allOf" -> allOf(cfg, v, instance, stack, d)
         [] impl = "anyOf" -> anyOf(cfg, v, instance, stack, d)
         [] impl = "oneOf" -> oneOf(cfg, v, instance, stack, d)
         [] impl = "not" -> not_(cfg, v, instance, stack, d)
         [] impl = "if" -> if_(cfg, v, instance, schema, stack, d)
         [] impl = "contains" -> contains(cfg, v, instance, schema, stack, d)
         [] impl = "contains_draft6_draft7" ->
                contains_draft6_draft7(cfg, v, instance, stack, d)
         [] impl = "patternProperties" -> patternProperties(cfg, v, instance, stack, d)
         [] impl = "additionalProperties" ->
                additionalProperties(cfg, v, instance, schema, stack, d)
         [] impl = "validate_additional_properties" ->
                validate_additional_properties(cfg, v, instance, schema, stack, d)
         [] impl = "unevaluatedProperties" ->
                unevaluatedProperties(cfg, v, instance, schema, stack, d)
         [] impl = "exclusiveMinimum" -> exclusiveMinimum(v, instance)
         [] impl = "exclusiveMaximum" -> exclusiveMaximum(v, instance)
         [] impl = "maximum" -> maximum(v, instance)
         [] impl = "multipleOf" -> multipleOf(v, instance)
         [] impl = "minItems" -> minItems(v, instance)
         [] impl = "uniqueItems" -> uniqueItems(v, instance)
         [] impl = "ListDuplicates.validate" -> ListDuplicates_validate(v, instance)
         [] impl = "pattern" -> pattern(v, instance)
         [] impl = "minLength" -> minLength(v, instance)
         [] impl = "maxLength" -> maxLength(v, instance)
         [] impl = "minProperties" -> minProperties(v, instance)
         [] impl = "maxProperties" -> maxProperties(v, instance)
         [] impl = "propertyNames" -> propertyNames(cfg, v, instance, stack, d)
         [] impl = "dependentRequired" -> dependentRequired(v, instance)
         [] impl = "dependentSchemas" -> dependentSchemas(cfg, v, instance, stack, d)
         [] impl = "additionalItems" ->
                additionalItems(cfg, v, instance, schema, stack, d)
         [] impl = "enum" -> enum(v, instance)
         [] impl = "AllowedValue.enum" -> AllowedValue_enum(v, instance)
         [] impl = "$dynamicRef" -> dynamicRef(cfg, v, instance, stack, d)
         [] impl = "const" -> const(v, instance)
         [] impl = "dependencies_draft4_draft6_draft7" ->
                dependencies_draft4_draft6_draft7(cfg, v, instance, stack, d)
         [] impl = "_validators.dependencies_draft4_draft6_draft7" ->
                _validators_dependencies_draft4_draft6_draft7(v, instance)
         [] impl = "$ref" -> ref(cfg, v, instance, stack, d)

\* validator(self, v, instance, _schema) for the implementation bound to k
CallValidator(cfg, k, v, instance, schema, stack, d) ==
    CallImpl(cfg, VALIDATORS(cfg, k), v, instance, schema, stack, d)

(***************************************************************************)
(* Validator.validate: for error in self.iter_errors(instance): raise      *)
(* error.  The generator is dropped, hence closed, as the error leaves.    *)
(***************************************************************************)
\* the last item of an exhausted stream
LastOf(evs) ==
    [first |-> IF Yields(evs) = <<>> THEN NoneV ELSE Yields(evs)[Len(Yields(evs))],
     raised |-> Raised(evs), evs |-> Effects(evs)]

\* variant: every error collected, the last one raised
validate_last(cfg, schema, instance, stack, d) ==
    LastOf(iter_errors(cfg, schema, instance, stack, d))

validate(cfg, schema, instance, stack, d) ==
    PullOne(iter_errors(cfg, schema, instance, stack, d))

(***************************************************************************)
(* JsonSchema.json_schema_validate: the host turns every error of          *)
(* validator.iter_errors(properties) into a RuleMatch.                     *)
(***************************************************************************)
\* getattr(self.rules, k): the child rule id RuleSet holds for a keyword
\* ("none": RuleSet has no such attribute)
RuleSet(k) ==
    CASE k = "additionalProperties" -> "E3002"
      [] k = "required" -> "E3003"
      [] k = "enum" -> "E3030"
      [] k = "type" -> "E3012"
      [] k \in {"minLength", "maxLength"} -> "E3033"
      [] k = "uniqueItems" -> "E3037"
      [] k \in {"maximum", "minimum", "exclusiveMaximum", "exclusiveMinimum"} -> "E3034"
      [] k \in {"maxItems", "minItems"} -> "E3032"
      [] k = "pattern" -> "E3031"
      [] k = "oneOf" -> "E2523"
      [] OTHER -> "none"

\* RuleMatch(path + list(e.path), e.message, rule=self.child_rules[...])
RuleMatch(path, message, rule) == [path |-> path, message |-> message, rule |-> rule]

\* what the call ends with: the events it performed, and its matches or the
\* exception that left it
Outcome(raised, x, matches, evs) ==
    [raised |-> raised, x |-> x, matches |-> matches, evs |-> evs]

RECURSIVE json_schema_validate(_, _, _, _)
\* for e in validator.iter_errors(properties): matches.append(RuleMatch(...));
\* an exception in the loop body drops the generator, which closes it
json_schema_validate(path, evs, j, matches) ==
    IF j > Len(evs) THEN Outcome(FALSE, "", matches, Effects(evs))
    ELSE IF IsRaise(evs[j]) THEN Outcome(TRUE, evs[j].x, <<>>, Effects(SubSeq(evs, 1, j - 1)))
    ELSE IF ~IsYield(evs[j]) THEN json_schema_validate(path, evs, j + 1, matches)
    ELSE IF evs[j].x.validator = "unset"   \* getattr(self.rules, None)
    THEN Outcome(TRUE, "TypeError", <<>>, Effects(SubSeq(evs, 1, j - 1)) \o evs[j].cl)
    ELSE IF RuleSet(evs[j].x.validator) = "none"
    THEN Outcome(TRUE, "AttributeError", <<>>, Effects(SubSeq(evs, 1, j - 1)) \o evs[j].cl)
    ELSE json_schema_validate(path, evs, j + 1,
             Append(matches, RuleMatch(path \o evs[j].x.path, evs[j].x.message,
                                       RuleSet(evs[j].x.validator))))

(***************************************************************************)
(* The schemas and instances the validators are run on.                    *)
(***************************************************************************)
TString == Obj(<< <<"type", Str("string")>> >>)
TNumber == Obj(<< <<"type", Str("number")>> >>)
Min2 == Obj(<< <<"minimum", Num(2)>> >>)
PropsAB ==
    Obj(<< <<"a", TString>>, <<"b", Obj(<< <<"type", Str("number")>>, <<"minimum", Num(2)>> >>)>> >>)

Schemas ==
    { TrueSchema, FalseSchema, TString, Min2,
      Obj(<< <<"type", Str("number")>>, <<"minimum", Num(2)>> >>),
      Obj(<< <<"type", Arr(<<Str("string"), Str("number")>>)>> >>),
      Obj(<< <<"type", Arr(<<Str("string"), Str("bogus")>>)>> >>),
      Obj(<< <<"$id", Str("urn:root")>>, <<"type", Str("string")>>,
             <<"minimum", Num(2)>>, <<"maxItems", Num(1)>> >>),
      Obj(<< <<"$id", Str("urn:root")>>, <<"minimum", Num(2)>>,
             <<"type", Str("bogus")>>, <<"maxItems", Num(1)>> >>),
      Obj(<< <<"$id", Str("urn:root")>>, <<"required", Arr(<<Str("a"), Str("b")>>)>>,
             <<"properties", PropsAB>>, <<"title", Str("t")>> >>),
      Obj(<< <<"properties", PropsAB>>, <<"required", Arr(<<Str("b")>>)>> >>),
      Obj(<< <<"properties", Obj(<< <<"a", Obj(<< <<"properties", PropsAB>> >>)>> >>)>> >>),
      Obj(<< <<"items", TNumber>>, <<"prefixItems", Arr(<<TString>>)>> >>),
      Obj(<< <<"prefixItems", Arr(<<TString, TString>>)>>, <<"items", Min2>>,
             <<"maxItems", Num(1)>> >>),
      Obj(<< <<"items", FalseSchema>>, <<"prefixItems", Arr(<<TString>>)>> >>),
      Obj(<< <<"items", Arr(<<TString, TNumber>>)>> >>),
      Obj(<< <<"allOf", Arr(<<TString, Min2>>)>>, <<"type", Str("number")>> >>),
      Obj(<< <<"anyOf", Arr(<<TString, Min2>>)>> >>),
      Obj(<< <<"oneOf", Arr(<<TString, TNumber>>)>> >>),
      Obj(<< <<"oneOf", Arr(<<TString, TNumber, Min2>>)>>, <<"type", Str("string")>> >>),
      Obj(<< <<"oneOf", Arr(<<Obj(<< <<"$ref", Str("urn:scoped")>> >>),
                              Obj(<< <<"$id", Str("urn:b")>>, <<"type", Str("number")>> >>),
                              Min2>>)>> >>),
      Obj(<< <<"not", TString>>, <<"minimum", Num(2)>> >>),
      Obj(<< <<"not", Obj(<< <<"$id", Str("urn:n")>>, <<"type", Str("number")>>,
                             <<"minimum", Num(2)>> >>)>> >>),
      Obj(<< <<"if", TNumber>>, <<"then", Min2>>, <<"else", TString>> >>),
      Obj(<< <<"$ref", Str("urn:leaf")>> >>),
      Obj(<< <<"$ref", Str("urn:scoped")>>, <<"type", Str("string")>> >>),
      Obj(<< <<"$ref", Str("urn:missing")>> >>),
      Obj(<< <<"$ref", Str("urn:broken")>> >>),
      Obj(<< <<"$id", Str("urn:root")>>, <<"type", Str("string")>>,
             <<"$ref", Str("#/definitions/s")>> >>),
      Obj(<< <<"$id", Str("urn:root")>>, <<"minimum", Num(2)>>,
             <<"properties", Obj(<< <<"a", Obj(<< <<"$ref", Str("urn:missing")>> >>)>> >>)>> >>),
      Obj(<< <<"$id", Str("urn:root")>>,
             <<"properties", Obj(<< <<"a", Obj(<< <<"$ref", Str("urn:scoped")>> >>)>> >>)>>,
             <<"required", Arr(<<Str("b")>>)>> >>),
      Obj(<< <<"contains", TNumber>> >>),
      Obj(<< <<"contains", TNumber>>, <<"minContains", Num(2)>> >>),
      Obj(<< <<"contains", TNumber>>, <<"minContains", Num(0)>>,
             <<"maxContains", Num(1)>> >>),
      Obj(<< <<"contains", Obj(<< <<"type", Str("number")>>, <<"minimum", Num(2)>> >>)>>,
             <<"maxContains", Num(0)>>, <<"type", Str("array")>> >>),
      Obj(<< <<"contains", Obj(<< <<"type", Str("bogus")>> >>)>> >>),
      Obj(<< <<"additionalProperties", FalseSchema>> >>),
      Obj(<< <<"properties", Obj(<< <<"a", TString>> >>)>>,
             <<"additionalProperties", FalseSchema>> >>),
      Obj(<< <<"patternProperties", Obj(<< <<"^b", TNumber>> >>)>>,
             <<"additionalProperties", FalseSchema>> >>),
      Obj(<< <<"properties", Obj(<< <<"a", TString>> >>)>>,
             <<"additionalProperties", TNumber>> >>),
      Obj(<< <<"additionalProperties", TrueSchema>>,
             <<"patternProperties", Obj(<< <<"^b", TNumber>>, <<"c$", TString>> >>)>> >>),
      Obj(<< <<"unevaluatedProperties", FalseSchema>>,
             <<"allOf", Arr(<<Obj(<< <<"properties", Obj(<< <<"a", Obj(<<>>)>> >>)>> >>)>>)>> >>),
      Obj(<< <<"allOf", Arr(<<Obj(<< <<"properties", Obj(<< <<"a", Obj(<<>>)>> >>)>>,
                                      <<"type", Str("string")>> >>),
                              Obj(<< <<"properties", Obj(<< <<"b", Min2>> >>)>> >>)>>)>>,
             <<"unevaluatedProperties", FalseSchema>> >>),
      Obj(<< <<"anyOf", Arr(<<Obj(<< <<"properties", Obj(<< <<"a", Obj(<<>>)>> >>)>>,
                                      <<"type", Str("string")>> >>),
                              Obj(<< <<"properties", Obj(<< <<"b", Obj(<<>>)>> >>)>> >>)>>)>>,
             <<"unevaluatedProperties", FalseSchema>> >>),
      Obj(<< <<"oneOf", Arr(<<Obj(<< <<"properties", Obj(<< <<"a", Obj(<<>>)>> >>)>> >>),
                              Obj(<< <<"properties", Obj(<< <<"b", Obj(<<>>)>> >>)>>,
                                      <<"required", Arr(<<Str("c")>>)>> >>)>>)>>,
             <<"unevaluatedProperties", FalseSchema>> >>),
      Obj(<< <<"properties", Obj(<< <<"a", Obj(<<>>)>> >>)>>,
             <<"unevaluatedProperties", TNumber>> >>),
      Obj(<< <<"minLength", Num(2)>>, <<"maxLength", Num(0)>>, <<"pattern", Str("^b")>> >>),
      Obj(<< <<"maximum", Num(2)>>, <<"exclusiveMinimum", Num(1)>>,
             <<"exclusiveMaximum", Num(3)>>, <<"multipleOf", Num(2)>> >>),
      Obj(<< <<"minItems", Num(1)>>, <<"uniqueItems", TrueSchema>>,
             <<"additionalItems", FalseSchema>>, <<"items", Arr(<<TNumber>>)>> >>),
      Obj(<< <<"minProperties", Num(2)>>, <<"maxProperties", Num(0)>>,
             <<"propertyNames", Obj(<< <<"pattern", Str("^b")>> >>)>>,
             <<"dependentRequired", Obj(<< <<"a", Arr(<<Str("b")>>)>> >>)>>,
             <<"dependentSchemas",
               Obj(<< <<"a", Obj(<< <<"required", Arr(<<Str("b")>>)>> >>)>> >>)>> >>),
      Obj(<< <<"enum", Arr(<<Flt(1), Str("a")>>)>> >>),
      Obj(<< <<"enum", Arr(<<Bool(TRUE), Num(0)>>)>> >>),
      Obj(<< <<"enum", Arr(<<Num(1), Bool(FALSE)>>)>> >>),
      Obj(<< <<"$id", Str("http://outer/")>>,
             <<"allOf", Arr(<<Obj(<< <<"$id", Str("http://inner/")>>,
                                      <<"$dynamicRef", Str("#node")>> >>)>>)>> >>),
      Obj(<< <<"$id", Str("http://plain/")>>,
             <<"allOf", Arr(<<Obj(<< <<"$id", Str("http://inner/")>>,
                                      <<"$dynamicRef", Str("#node")>> >>)>>)>> >>),
      Obj(<< <<"$id", Str("http://plain/")>>, <<"$dynamicRef", Str("#node")>> >>),
      Obj(<< <<"$id", Str("http://other/")>>, <<"$dynamicRef", Str("#node")>> >>),
      Obj(<< <<"minimum", Num(2)>>, <<"$ref", Null>> >>),
      Obj(<< <<"$ref", Str("urn:loop")>> >>),
      Obj(<< <<"$id", Str("urn:tree")>>,
             <<"properties", Obj(<< <<"a", Obj(<< <<"$ref", Str("urn:tree")>> >>)>> >>)>> >>),
      Obj(<< <<"type", Str("object")>>,
             <<"properties", Obj(<< <<"a", Obj(<< <<"$ref", Str("urn:loop")>> >>)>> >>)>> >>),
      Obj(<< <<"items", Arr(<<TString>>)>>, <<"additionalItems", TNumber>> >>),
      Obj(<< <<"items", Arr(<<TString>>)>>, <<"additionalItems", FalseSchema>> >>),
      Obj(<< <<"items", TNumber>>, <<"additionalItems", FalseSchema>> >>),
      Obj(<< <<"additionalItems", FalseSchema>> >>),
      Obj(<< <<"items", TrueSchema>>, <<"additionalItems", FalseSchema>> >>),
      Obj(<< <<"enum", Arr(<<Arr(<<Num(1)>>)>>)>> >>),
      Obj(<< <<"const", Arr(<<Num(1)>>)>> >>),
      Obj(<< <<"enum", Arr(<<Num(1)>>)>> >>),
      Obj(<< <<"const", Num(1)>> >>),
      Obj(<< <<"dependencies", Obj(<< <<"a", Arr(<<Str("b")>>)>> >>)>> >>),
      Obj(<< <<"dependencies",
               Obj(<< <<"b", Arr(<<Str("a"), Str("c")>>)>>,
                      <<"a", Obj(<< <<"required", Arr(<<Str("b")>>)>> >>)>> >>)>> >>) }

Scalars == {Str("a"), Num(1), Num(3), Bool(TRUE)}

Arrays == {Arr(s) : s \in UNION {[1..n -> Scalars] : n \in 0..MaxLen}}

Objects ==
    {Obj(<<>>), Obj(<< <<"a", Obj(<< <<"a", Num(1)>>, <<"b", Num(1)>> >>)>> >>)}
    \cup {Obj(<< <<"a", x>> >>) : x \in Scalars}
    \cup {Obj(<< <<"b", x>> >>) : x \in Scalars}
    \cup {Obj(<< <<"a", x>>, <<"b", y>> >>) : x \in {Str("a"), Num(1)}, y \in {Num(1), Num(3)}}
    \cup {Obj(<< <<"c", Num(1)>>, <<"bc", Str("a")>>, <<"a", Num(1)>> >>)}

\* values that tell 1 from 1.0, true from 1 and false from 0
Coincidences ==
    {Flt(1), Num(0), Bool(FALSE), Arr(<<Num(1), Flt(1)>>),
     Arr(<<Arr(<<Num(1)>>), Str("a"), Arr(<<Flt(1)>>)>>)}

Instances == Scalars \cup Arrays \cup Objects \cup Coincidences

\* the path arguments descend is called with (None: not given)
PathArgs == {NoneV, Key("p"), Idx(0)}

(***************************************************************************)
(* The state: one Validator(schema) with its resolver, and one consumer.   *)
(***************************************************************************)
VARIABLES
    cfg,        \* what `create` was given
    schema,     \* Validator.schema
    scopes,     \* resolver._scopes_stack
    call,       \* the call the consumer made: [api, instance, path, schema_path]
    pc,         \* "idle", "suspended", "exhausted", "closed", "raised", "returned"
    pending,    \* the events the live generator has still to perform
    cl,         \* the finally blocks pending at the generator's suspension point
    out,        \* the values the consumer has received
    log,        \* the events performed so far
    result,     \* what is_valid / validate returned or raised
    sharing,    \* two validators: whether they were given one resolver
    gens,       \* two validators: the iter_errors stream of each
    stacks,     \* two validators: the _scopes_stack of each resolver, with who pushed
    attached,   \* Configuration: the attribution each handler gave its error
    yielded,    \* Configuration: the errors self.validator.iter_errors yields
    reported,   \* Configuration: the matches _check_resource returned
    chk,        \* Configuration: "open", then the resource checked ("off": not in use)
    caller_doc, \* Schema: the document object the caller passed, as it is now
    given_doc,  \* Schema: that document as it was when it was passed
    self_schema,      \* Schema: self.schema
    self_json_schema, \* Schema: the object self._json_schema refers to
    returned,   \* Schema: what the last method call returned or raised
    sp,         \* Schema: "new", "built", then the method called ("off": not in use)
    managers,   \* ProviderSchemaManager: how many have been constructed
    _schemas,   \* self._schemas of each manager: region, type -> Schema object
    _cache,     \* ProviderSchemaManager._cache, the class attribute
    _provider_schema_modules,  \* the class attribute: the regions imported
    objects,    \* per region and type: how many attribute maps have been created
    loads,      \* per manager, region and type: how often the document was loaded
    firsts,     \* per manager: what each getter returned the first time
    answer      \* what the last call returned

engineVars == <<cfg, hashseed, schema, scopes, call, pc, pending, cl, out, log, result>>
pairVars == <<sharing, gens, stacks>>
convVars == <<attached, yielded, reported, chk>>
docVars == <<caller_doc, given_doc, self_schema, self_json_schema, returned, sp>>
mgrVars == <<managers, _schemas, _cache, _provider_schema_modules, objects, loads,
             firsts, answer>>

\* the state outside the single validator and its consumer
otherVars == <<pairVars, convVars, docVars, mgrVars>>

vars == <<engineVars, otherVars>>

\* no pair of validators has been built
PairIdle == sharing = FALSE /\ gens = <<>> /\ stacks = <<>>

\* no Configuration rule at work
ConvIdle == attached = <<>> /\ yielded = <<>> /\ reported = <<>> /\ chk = "off"

\* no ProviderSchemaManager constructed
MgrIdle ==
    /\ managers = 0 /\ _schemas = <<>> /\ _cache = <<>>
    /\ _provider_schema_modules = {} /\ objects = 0 /\ loads = <<>>
    /\ firsts = <<>> /\ answer = Null

\* no Schema under construction
DocIdle ==
    /\ caller_doc = Null /\ given_doc = Null /\ self_schema = Null
    /\ self_json_schema = "" /\ returned = Null /\ sp = "off"

NoCall ==
    [api |-> "none", instance |-> Null, path |-> NoneV, schema_path |-> NoneV,
     kw |-> "", impl |-> "", prefix |-> <<>>]
NoResult == [r |-> "none"]

\* __attrs_post_init__: RefResolver.from_schema(schema, id_of=id_of) starts the
\* scope stack with the schema's id
Init ==
    /\ cfg \in {Configs[n] : n \in 1..Len(Configs)}
    /\ schema \in Schemas
    /\ hashseed \in HashSeeds(schema)
    /\ scopes = <<id_of(cfg, schema)>>
    /\ call = NoCall
    /\ pc = "idle"
    /\ pending = <<>>
    /\ cl = <<>>
    /\ out = <<>>
    /\ log = <<>>
    /\ result = NoResult
    /\ PairIdle
    /\ ConvIdle
    /\ DocIdle
    /\ MgrIdle

\* gen = validator.iter_errors(instance): nothing runs before the first next()
IterErrorsCall(instance) ==
    /\ pc = "idle"
    /\ call' = [NoCall EXCEPT !.api = "iter_errors", !.instance = instance]
    /\ pending' = iter_errors(cfg, schema, instance, scopes, 0)
    /\ pc' = "suspended"
    /\ UNCHANGED otherVars
    /\ UNCHANGED <<cfg, hashseed, schema, scopes, cl, out, log, result>>

\* gen = validator.descend(instance, schema, path, schema_path)
DescendCall(instance, path, schema_path) ==
    /\ pc = "idle"
    /\ call' = [NoCall EXCEPT !.api = "descend", !.instance = instance,
                              !.path = path, !.schema_path = schema_path]
    /\ pending' = descend(cfg, instance, schema, path, schema_path, scopes, 0)
    /\ pc' = "suspended"
    /\ UNCHANGED otherVars
    /\ UNCHANGED <<cfg, hashseed, schema, scopes, cl, out, log, result>>

\* gen = ref(validator, schema["$ref"], instance, schema)
RefCall(instance) ==
    /\ pc = "idle"
    /\ IsObj(schema) /\ Has(schema, "$ref")
    /\ call' = [NoCall EXCEPT !.api = "$ref", !.instance = instance]
    /\ pending' = ref(cfg, Get(schema, "$ref"), instance, scopes, 0)
    /\ pc' = "suspended"
    /\ UNCHANGED otherVars
    /\ UNCHANGED <<cfg, hashseed, schema, scopes, cl, out, log, result>>

\* gen = impl(validator, schema[k], instance, schema): a keyword validator
\* called on its own, as the unit tests call AllowedValue.enum
ValidatorCall(k, instance) ==
    /\ pc = "idle"
    /\ k # "$ref"
    /\ \E impl \in ImplsFor(k) :
          /\ call' = [NoCall EXCEPT !.api = "validator", !.instance = instance,
                                    !.kw = k, !.impl = impl]
          /\ pending' = CallImpl(cfg, impl, Get(schema, k), instance, schema, scopes, 0)
    /\ pc' = "suspended"
    /\ UNCHANGED otherVars
    /\ UNCHANGED <<cfg, hashseed, schema, scopes, cl, out, log, result>>

\* next(gen): the generator runs to its next yield, to its end, or raises
NextItem ==
    /\ pc = "suspended"
    /\ Len(out) < MaxPulls
    /\ LET fy == FirstYield(pending)
           ran == IF fy > 0 THEN SubSeq(pending, 1, fy - 1)
                  ELSE IF Raised(pending) THEN SubSeq(pending, 1, Len(pending) - 1)
                  ELSE pending
       IN /\ scopes' = StackAfter(scopes, ran)
          /\ log' = log \o ran
          /\ IF fy > 0
             THEN /\ out' = Append(out, pending[fy].x)
                  /\ cl' = pending[fy].cl
                  /\ pending' = SubSeq(pending, fy + 1, Len(pending))
                  /\ pc' = "suspended"
                  /\ result' = result
             ELSE /\ out' = out
                  /\ cl' = <<>>
                  /\ pending' = <<>>
                  /\ pc' = IF Raised(pending) THEN "raised" ELSE "exhausted"
                  /\ result' = IF Raised(pending)
                               THEN [r |-> "exception", x |-> pending[Len(pending)].x]
                               ELSE result
    /\ UNCHANGED otherVars
    /\ UNCHANGED <<cfg, hashseed, schema, call>>

\* gen.close(), or the consumer drops the generator: the finally blocks at the
\* suspension point run
Abandon ==
    /\ pc = "suspended"
    /\ scopes' = StackAfter(scopes, cl)
    /\ log' = log \o cl
    /\ cl' = <<>>
    /\ pending' = <<>>
    /\ pc' = "closed"
    /\ UNCHANGED otherVars
    /\ UNCHANGED <<cfg, hashseed, schema, call, out, result>>

\* the events a finished call performed (an exception ends them)
Ran(r) == IF r.raised THEN SubSeq(r.evs, 1, Len(r.evs) - 1) ELSE r.evs

Exception(r) == [r |-> "exception", x |-> r.evs[Len(r.evs)].x]

IsValidReturn(instance, r) ==
    /\ scopes' = StackAfter(scopes, Ran(r))
    /\ log' = Ran(r)
    /\ result' = IF r.raised THEN Exception(r)
                 ELSE [r |-> "return", v |-> IF r.valid THEN "True" ELSE "False"]
    /\ pc' = IF r.raised THEN "raised" ELSE "returned"
    /\ call' = [NoCall EXCEPT !.api = "is_valid", !.instance = instance]
    /\ UNCHANGED otherVars
    /\ UNCHANGED <<cfg, hashseed, schema, pending, cl, out>>

\* validator.is_valid(instance)
IsValidCall(instance) ==
    /\ pc = "idle"
    /\ IsValidReturn(instance, is_valid(cfg, schema, instance, scopes, 0))

ValidateReturn(instance, r) ==
    /\ scopes' = StackAfter(scopes, Ran(r))
    /\ log' = Ran(r)
    /\ result' = IF r.raised THEN Exception(r)
                 ELSE IF r.first # NoneV
                 THEN [r |-> "ValidationError", error |-> r.first]
                 ELSE [r |-> "return", v |-> "None"]
    /\ pc' = IF r.raised \/ r.first # NoneV THEN "raised" ELSE "returned"
    /\ call' = [NoCall EXCEPT !.api = "validate", !.instance = instance]
    /\ UNCHANGED otherVars
    /\ UNCHANGED <<cfg, hashseed, schema, pending, cl, out>>

\* validator.validate(instance)
ValidateCall(instance) ==
    /\ pc = "idle"
    /\ ValidateReturn(instance, validate(cfg, schema, instance, scopes, 0))

JsonSchemaValidateReturn(instance, path, r) ==
    /\ scopes' = StackAfter(scopes, r.evs)
    /\ log' = r.evs
    /\ result' = IF r.raised THEN [r |-> "exception", x |-> r.x]
                 ELSE [r |-> "matches", matches |-> r.matches]
    /\ pc' = IF r.raised THEN "raised" ELSE "returned"
    /\ call' = [NoCall EXCEPT !.api = "json_schema_validate", !.instance = instance,
                              !.prefix = path]
    /\ UNCHANGED otherVars
    /\ UNCHANGED <<cfg, hashseed, schema, pending, cl, out>>

\* JsonSchema.json_schema_validate(validator, properties, path), on the
\* validator _setup_validator assembles
JsonSchemaValidateCall(instance, path) ==
    /\ pc = "idle"
    /\ cfg = "host"
    /\ JsonSchemaValidateReturn(instance, path,
            json_schema_validate(path, iter_errors(cfg, schema, instance, scopes, 0),
                                 1, <<>>))

\* the path prefixes the host gives json_schema_validate
Prefixes == {<<>>, <<Key("Resources"), Key("R"), Key("Properties")>>}

\* the keywords of the validator's schema
SchemaKeywords ==
    IF pc = "idle" /\ IsObj(schema) THEN {schema.v[j][1] : j \in 1..Len(schema.v)} ELSE {}

Next ==
    \/ \E instance \in Instances : IterErrorsCall(instance)
    \/ \E instance \in Instances, path \in PathArgs, schema_path \in PathArgs :
            DescendCall(instance, path, schema_path)
    \/ \E instance \in Instances : RefCall(instance)
    \/ \E k \in SchemaKeywords, instance \in Instances : ValidatorCall(k, instance)
    \/ NextItem
    \/ Abandon
    \/ \E instance \in Instances : IsValidCall(instance)
    \/ \E instance \in Instances : ValidateCall(instance)
    \/ \E instance \in Instances, path \in Prefixes : JsonSchemaValidateCall(instance, path)

Spec == Init /\ [][Next]_vars

(***************************************************************************)
(* Properties.                                                             *)
(***************************************************************************)
\* the scope stack the resolver starts with
InitStack == <<id_of(cfg, schema)>>

\* the whole run of the consumer's iter_errors(instance)
Full == iter_errors(cfg, schema, call.instance, InitStack, 0)

IsDisp(ev) == ev.e = "disp"
Disps(evs) == SelectSeq(evs, IsDisp)

\* the events of a run before its first yield (all of them if it has none)
BeforeFirstYield(evs) ==
    IF FirstYield(evs) = 0 THEN evs ELSE SubSeq(evs, 1, FirstYield(evs) - 1)

\* how many times function `by` at depth 0 made call e ("push" or "pop")
ScopeCalls(evs, e, by) ==
    LET Is(ev) == ev.e = e /\ ev.by = by /\ ev.d = 0
    IN Len(SelectSeq(evs, Is))

Terminal == pc \in {"exhausted", "closed", "raised"}

\* C1: iter_errors on the schema `true` yields nothing and on the schema
\* `false` yields exactly one error with an empty instance path, whatever the
\* instance; neither pushes or pops a scope.
C1_BooleanSchemas ==
    (call.api = "iter_errors" /\ schema \in {TrueSchema, FalseSchema}) =>
        /\ pc # "raised"
        /\ \A j \in 1..Len(log) : log[j].e \notin {"push", "pop"}
        /\ scopes = InitStack
        /\ schema = TrueSchema => out = <<>>
        /\ schema = FalseSchema => Len(out) <= 1
        /\ (pc = "exhausted" /\ schema = FalseSchema) =>
              /\ Len(out) = 1
              /\ out[1].kind = "error"
              /\ out[1].path = <<>>

C1_Witness ==
    /\ call.api = "iter_errors" /\ schema = FalseSchema
    /\ pc = "exhausted" /\ Len(out) = 1 /\ IsObj(call.instance)

\* C5: is_valid returns true iff iter_errors yields nothing, and it runs the
\* stream only up to its first item: the keywords dispatched are those
\* dispatched before the first error, none after it.
C5_IsValidShortCircuits ==
    (call.api = "is_valid" /\ pc = "returned") =>
        /\ (result.v = "True") <=> (Yields(Full) = <<>>)
        /\ Disps(log) = Disps(BeforeFirstYield(Full))

C5_Witness ==
    /\ call.api = "is_valid" /\ pc = "returned" /\ result.v = "False"
    /\ Len(Disps(log)) < Len(Disps(Full))

\* C6: iter_errors pushes the schema's scope id once, before any keyword is
\* dispatched, and pops it once on every exit (exhausted, exception, stream
\* abandoned), leaving the scope stack as it found it; without a scope id
\* iter_errors itself never touches the stack.
C6_IterErrorsScopeBalanced ==
    call.api = "iter_errors" =>
        LET scope == id_of(cfg, schema)
            pushes == ScopeCalls(log, "push", "iter_errors")
            pops == ScopeCalls(log, "pop", "iter_errors")
        IN /\ scope = "" => pushes = 0 /\ pops = 0
           /\ scope # "" =>
                /\ log # <<>> => log[1] = Push(scope, "iter_errors", 0)
                /\ pushes <= 1
                /\ pc = "suspended" => pops = 0
                /\ pc \in {"exhausted", "raised"} => pushes = 1 /\ pops = 1
                /\ pc = "closed" => pops = pushes
           /\ Terminal => scopes = InitStack

C6_Witness ==
    /\ call.api = "iter_errors" /\ id_of(cfg, schema) # ""
    /\ pc = "closed" /\ Len(out) >= 1
    /\ ScopeCalls(log, "pop", "iter_errors") = 1

\* C7: the $ref validator pushes the resolved scope once before it descends
\* and pops it once on every exit (descent exhausted, exception in the
\* descent, stream abandoned); a failed resolution leaves as an exception,
\* with no error yielded and the scope stack untouched.
C7_RefScopeBalanced ==
    call.api = "$ref" =>
        LET res == Resolve(InitStack, Get(schema, "$ref").v)
            pushes == ScopeCalls(log, "push", "$ref")
            pops == ScopeCalls(log, "pop", "$ref")
        IN /\ ~res.ok =>
                /\ out = <<>> /\ log = <<>> /\ scopes = InitStack
                /\ pc # "exhausted"
                /\ pc = "raised" =>
                      result = [r |-> "exception", x |-> "RefResolutionError"]
           /\ res.ok =>
                /\ log # <<>> => log[1] = Push(res.scope, "$ref", 0)
                /\ pushes <= 1
                /\ pc = "suspended" => pops = 0
                /\ pc \in {"exhausted", "raised"} => pushes = 1 /\ pops = 1
                /\ pc = "closed" => pops = pushes
           /\ Terminal => scopes = InitStack

C7_Witness ==
    /\ call.api = "$ref" /\ pc = "closed" /\ Len(out) >= 1
    /\ ScopeCalls(log, "pop", "$ref") = 1

\* C8: validate raises the first error iter_errors would yield, dispatching
\* no keyword after the one that produced it, and returns without raising
\* iff iter_errors yields nothing.
C8_ValidateRaisesFirst ==
    (call.api = "validate" /\ result.r \in {"return", "ValidationError"}) =>
        /\ (result.r = "return") <=> (Yields(Full) = <<>>)
        /\ result.r = "ValidationError" => result.error = Yields(Full)[1]
        /\ Disps(log) = Disps(BeforeFirstYield(Full))

C8_Witness ==
    /\ call.api = "validate" /\ result.r = "ValidationError"
    /\ Len(Yields(Full)) >= 2
    /\ Len(Disps(log)) < Len(Disps(Full))

\* the scope stack inside the consumer's iter_errors, once its scope is pushed
InnerStack == StackAfter(InitStack, ScopeEntry(id_of(cfg, schema), 0))

\* the errors iter_errors yields for a sub-instance under a sub-schema
SubErrors(subschema, subinstance) ==
    Yields(iter_errors(cfg, subschema, subinstance, InnerStack, 1))

\* C2: descend yields the very errors evolve(schema=schema).iter_errors(instance)
\* yields, as many and in the same order, each with `path` and `schema_path`
\* prepended when given.
C2_DescendYieldsErrors ==
    (call.api = "descend" /\ pc = "exhausted") =>
        LET inner == Yields(iter_errors(cfg, schema, call.instance, InitStack, 1))
        IN out = [j \in 1..Len(inner) |->
                    PrependPaths(inner[j], call.path, call.schema_path)]

\* the errors of a sequence whose instance path starts with segment seg
ErrorsAt(errs, seg) ==
    LET At(e) == e.path # <<>> /\ e.path[1] = seg
    IN SelectSeq(errs, At)

\* C3: with the modern `items` and `prefixItems`, element i of an array is
\* validated against prefixItems[i] when i < len(prefixItems) and against
\* items otherwise, and each of its errors carries index i as instance path.
C3_PrefixItemsThenItems ==
    (/\ call.api = "iter_errors" /\ pc = "exhausted" /\ cfg = "modern"
     /\ IsObj(schema) /\ Len(schema.v) = 2
     /\ Has(schema, "items") /\ Has(schema, "prefixItems")
     /\ IsObj(Get(schema, "items")) /\ IsArr(call.instance)) =>
        LET P == Get(schema, "prefixItems").v
            S == Get(schema, "items")
            Sub(n) == IF n <= Len(P) THEN P[n] ELSE S
            Expect(n) ==
                LET inner == SubErrors(Sub(n), call.instance.v[n])
                IN [j \in 1..Len(inner) |->
                      <<inner[j].message, <<Idx(n - 1)>> \o inner[j].path>>]
            Got(n) ==
                LET at == ErrorsAt(out, Idx(n - 1))
                IN [j \in 1..Len(at) |-> <<at[j].message, at[j].path>>]
        IN /\ \A n \in 1..Len(call.instance.v) : Got(n) = Expect(n)
           /\ \A j \in 1..Len(out) : out[j].path # <<>>

\* the (sub-instance, sub-schema) pairs keyword k descends into
DescendJobs(k, v, instance) ==
    LET impl == VALIDATORS(cfg, k)
    IN IF impl = "properties" /\ IsObj(instance) THEN PropertiesJobs(v, instance)
       ELSE IF impl = "items" /\ IsArr(instance) /\ v # FalseSchema
       THEN ItemsJobs(v, instance, schema)
       ELSE IF impl = "prefixItems" /\ IsArr(instance) THEN PrefixItemsJobs(v, instance)
       ELSE IF impl = "allOf" THEN AllOfJobs(v, instance)
       ELSE <<>>

LeafKeywords == {"type", "required", "minimum", "maxItems"}

\* the instance violates keyword k of the schema: the keyword's own check
\* fails, or a sub-instance fails the sub-schema the keyword descends into
Violates(k, v, instance) ==
    \/ /\ k \in LeafKeywords
       /\ Yields(CallValidator(cfg, k, v, instance, schema, InnerStack, 0)) # <<>>
    \/ \E n \in 1..Len(DescendJobs(k, v, instance)) :
            SubErrors(DescendJobs(k, v, instance)[n].schema,
                      DescendJobs(k, v, instance)[n].instance) # <<>>

\* C4: exhausting iter_errors yields at least one error for every keyword the
\* instance violates at that level, those violated in a sub-schema reached
\* through descend included.
C4_EveryViolatedKeywordReported ==
    (call.api = "iter_errors" /\ pc = "exhausted" /\ IsObj(schema)) =>
        \A j \in 1..Len(applicable_validators(cfg, schema)) :
            LET k == applicable_validators(cfg, schema)[j][1]
                v == applicable_validators(cfg, schema)[j][2]
            IN Violates(k, v, call.instance) =>
                  \E m \in 1..Len(out) :
                      out[m].schema_path # <<>> /\ out[m].schema_path[1] = Key(k)

\* C9: every error iter_errors yields has the dispatching keyword at the head
\* of its schema path (`if` and `$ref` add none), and an error found through descend has as schema path
\* the chain keyword, descend segment, then the sub-schema's own path
\* (properties, a, type).
C9_SchemaPathIsKeywordChain ==
    (call.api = "iter_errors" /\ pc = "exhausted" /\ IsObj(schema)) =>
        /\ (~Has(schema, "if") /\ ~Has(schema, "$ref")) =>
              \A m \in 1..Len(out) :
                  /\ out[m].schema_path # <<>>
                  /\ \E j \in 1..Len(schema.v) :
                        out[m].schema_path[1] = Key(schema.v[j][1])
        /\ \A j \in 1..Len(applicable_validators(cfg, schema)) :
              LET k == applicable_validators(cfg, schema)[j][1]
                  jobs == DescendJobs(k, applicable_validators(cfg, schema)[j][2],
                                      call.instance)
              IN \A n \in 1..Len(jobs) :
                    LET inner == SubErrors(jobs[n].schema, jobs[n].instance)
                        segment == IF jobs[n].schema_path # NoneV
                                   THEN <<jobs[n].schema_path>> ELSE <<>>
                    IN \A h \in 1..Len(inner) :
                          \E m \in 1..Len(out) :
                              out[m].schema_path =
                                  <<Key(k)>> \o segment \o inner[h].schema_path

\* the errors of branches j.. of a oneOf, each as descend passes it on
RECURSIVE BranchErrors(_, _, _)
BranchErrors(oO, j, instance) ==
    IF j > Len(oO) THEN <<>>
    ELSE LET inner == SubErrors(oO[j], instance)
         IN [h \in 1..Len(inner) |-> PrependPaths(inner[h], NoneV, Idx(j - 1))]
            \o BranchErrors(oO, j + 1, instance)

\* C10: oneOf with exactly one passing branch yields nothing; with none, one
\* error whose context is every branch's errors in branch order; with two or
\* more, one error that names every passing branch.
C10_OneOf ==
    (/\ call.api = "iter_errors" /\ pc = "exhausted"
     /\ IsObj(schema) /\ Has(schema, "oneOf")) =>
        LET oO == Get(schema, "oneOf").v
            passing == {j \in 1..Len(oO) : SubErrors(oO[j], call.instance) = <<>>}
            ByOneOf(e) == e.validator = "oneOf"
            mine == SelectSeq(out, ByOneOf)
        IN /\ Cardinality(passing) = 1 => mine = <<>>
           /\ passing = {} =>
                /\ Len(mine) = 1
                /\ mine[1].message = "is not valid under any of the given schemas"
                /\ mine[1].context = BranchErrors(oO, 1, call.instance)
           /\ Cardinality(passing) >= 2 =>
                /\ Len(mine) = 1
                /\ mine[1].message = "is valid under each of"
                /\ \A j \in passing :
                      \E a \in 1..Len(mine[1].args) : mine[1].args[a] = oO[j]

\* a keyword validator called on its own has run to its end
ValidatorDone(impl) ==
    call.api = "validator" /\ call.impl = impl /\ pc = "exhausted"

\* the run of iter_errors for a sub-instance under a sub-schema, from the
\* scope stack a validator called on its own starts with
SubRun(subschema, subinstance) ==
    iter_errors(cfg, subschema, subinstance, InitStack, 1)

\* the side effects of evaluating branches j..upto of a combinator in order
RECURSIVE BranchEffects(_, _, _, _)
BranchEffects(branches, j, upto, instance) ==
    IF j > upto THEN <<>>
    ELSE Effects(SubRun(branches[j], instance))
         \o BranchEffects(branches, j + 1, upto, instance)

\* the branches of a combinator under which the instance has no error
Passing(branches, instance) ==
    {j \in 1..Len(branches) : Yields(SubRun(branches[j], instance)) = <<>>}

\* C11: anyOf evaluates its branches in order up to the first one without an
\* error and then yields nothing; when every branch fails it yields exactly one
\* error whose context is the errors of all branches in branch order.
C11_AnyOf ==
    ValidatorDone("anyOf") =>
        LET aO == Get(schema, "anyOf").v
            passing == Passing(aO, call.instance)
            evaluated == IF passing = {} THEN Len(aO)
                         ELSE CHOOSE j \in passing : \A h \in passing : j <= h
        IN /\ log = BranchEffects(aO, 1, evaluated, call.instance)
           /\ passing # {} => out = <<>>
           /\ passing = {} =>
                /\ Len(out) = 1
                /\ out[1].message = "is not valid under any of the given schemas"
                /\ out[1].context = BranchErrors(aO, 1, call.instance)

\* C12: `if` yields exactly the errors of `then` when the instance is valid
\* under the `if` schema and exactly those of `else` when it is not; it never
\* yields the errors of the `if` schema, never evaluates the other branch, and
\* yields nothing when the selected branch is absent.
C12_IfThenElse ==
    ValidatorDone("if") =>
        LET test == SubRun(Get(schema, "if"), call.instance)
            selected == IF Yields(test) = <<>> THEN "then" ELSE "else"
            branch == IF Has(schema, selected)
                      THEN SubRun(Get(schema, selected), call.instance)
                      ELSE <<>>
            errors == Yields(branch)
        IN /\ out = [j \in 1..Len(errors) |->
                        PrependPaths(errors[j], NoneV, Key(selected))]
           /\ log = is_valid(cfg, Get(schema, "if"), call.instance, InitStack, 1).evs
                    \o Effects(branch)

\* the side effects of is_valid on elements j..upto of an array, in order
RECURSIVE ElementEffects(_, _, _, _)
ElementEffects(cS, elements, j, upto) ==
    IF j > upto THEN <<>>
    ELSE is_valid(cfg, cS, elements[j], InitStack, 1).evs
         \o ElementEffects(cS, elements, j + 1, upto)

\* how many of the first n elements have no error under cS
MatchCount(cS, elements, n) ==
    Cardinality({h \in 1..n : Yields(SubRun(cS, elements[h])) = <<>>})

Claimed(instance) ==
    {key \in {Keys(instance)[j] : j \in 1..Len(instance.v)} :
        \/ Has(GetOr(schema, "properties", Obj(<<>>)), key)
        \/ \E j \in 1..Len(GetOr(schema, "patternProperties", Obj(<<>>)).v) :
              ReSearch(Keys(Get(schema, "patternProperties"))[j], key)}

Unclaimed(instance) ==
    {Keys(instance)[j] : j \in 1..Len(instance.v)} \ Claimed(instance)

\* the runs of iter_errors for the unclaimed values under aP, in instance order
RECURSIVE UnclaimedRuns(_, _, _)
UnclaimedRuns(aP, instance, j) ==
    IF j > Len(instance.v) THEN <<>>
    ELSE (IF instance.v[j][1] \in Unclaimed(instance)
          THEN SubRun(aP, instance.v[j][2]) ELSE <<>>)
         \o UnclaimedRuns(aP, instance, j + 1)

\* the error names the key, in its message or as its instance path
NamesKey(error, key) ==
    \/ \E a \in 1..Len(error.args) : error.args[a] = Str(key)
    \/ (error.path # <<>> /\ error.path[1] = Key(key))

\* C14: additionalProperties false on an object with n >= 1 keys claimed by
\* neither properties nor patternProperties yields exactly one error, which
\* names all n keys; a schema argument is applied to the value of each
\* unclaimed key; no error of the keyword names a claimed key.
C14_AdditionalProperties ==
    (/\ call.api = "validator" /\ call.kw = "additionalProperties"
     /\ pc = "exhausted" /\ IsObj(call.instance)) =>
        LET aP == Get(schema, "additionalProperties")
            unclaimed == Unclaimed(call.instance)
        IN /\ (aP = FalseSchema /\ unclaimed # {}) =>
                /\ Len(out) = 1
                /\ \A key \in unclaimed : NamesKey(out[1], key)
           /\ IsObj(aP) =>
                /\ Len(out) = Len(Yields(UnclaimedRuns(aP, call.instance, 1)))
                /\ Len(log) = Len(Effects(UnclaimedRuns(aP, call.instance, 1)))
           /\ \A m \in 1..Len(out) :
                out[m] # NoneV =>
                    \A key \in Claimed(call.instance) :
                        IF IsObj(aP)
                        THEN out[m].path = <<>> \/ out[m].path[1] # Key(key)
                        ELSE ~NamesKey(out[m], key)

\* the keys of the instance a branch claims through its `properties`: those it
\* names whose value passes the named sub-schema
ClaimedByBranch(branch, instance) ==
    {key \in {Keys(instance)[j] : j \in 1..Len(instance.v)} :
        /\ Has(GetOr(branch, "properties", Obj(<<>>)), key)
        /\ Yields(SubRun(Get(Get(branch, "properties"), key), Get(instance, key))) = <<>>}

\* the evaluated set of the schema under validation: the keys its own
\* `properties` claims, those every `allOf` branch claims, and those the
\* passing `anyOf` and `oneOf` branches claim
EvaluatedSet(instance) ==
    LET every == GetOr(schema, "allOf", Arr(<<>>)).v
        some == GetOr(schema, "anyOf", Arr(<<>>)).v \o GetOr(schema, "oneOf", Arr(<<>>)).v
    IN ClaimedByBranch(schema, instance)
       \cup UNION {ClaimedByBranch(every[j], instance) : j \in 1..Len(every)}
       \cup UNION {IF Yields(SubRun(some[j], instance)) = <<>>
                   THEN ClaimedByBranch(some[j], instance) ELSE {} : j \in 1..Len(some)}

\* C15: unevaluatedProperties false reports, in one error, exactly the
\* instance keys outside the evaluated set, each once, and nothing when there
\* is none; allOf branches claim keys whether they pass or fail, anyOf and
\* oneOf branches only when they pass.
C15_UnevaluatedProperties ==
    (/\ ValidatorDone("unevaluatedProperties") /\ IsObj(call.instance)
     /\ Get(schema, "unevaluatedProperties") = FalseSchema) =>
        LET unevaluated == {Keys(call.instance)[j] : j \in 1..Len(call.instance.v)}
                           \ EvaluatedSet(call.instance)
        IN IF unevaluated = {} THEN out = <<>>
           ELSE /\ Len(out) = 1
                /\ out[1] # NoneV
                /\ out[1].message = "Unevaluated properties are not allowed"
                /\ {out[1].args[a] : a \in 1..Len(out[1].args)}
                   = {Str(key) : key \in unevaluated}
                /\ Len(out[1].args) = Cardinality(unevaluated)

\* allOf:[{properties:{a:{}}}] on an object with keys a and b reports only b
C15_Witness ==
    /\ ValidatorDone("unevaluatedProperties")
    /\ Get(schema, "unevaluatedProperties") = FalseSchema
    /\ Has(schema, "allOf") /\ Len(Get(schema, "allOf").v) = 1
    /\ IsObj(call.instance) /\ Has(call.instance, "a") /\ Has(call.instance, "b")
    /\ Len(out) = 1 /\ out[1].args = <<Str("b")>>

\* the keywords that apply to one type of instance only
ObjectKeywords ==
    {"required", "properties", "patternProperties", "propertyNames",
     "additionalProperties", "dependentRequired", "dependentSchemas",
     "minProperties", "maxProperties"}
ArrayKeywords ==
    {"items", "prefixItems", "contains", "minItems", "maxItems", "uniqueItems",
     "additionalItems"}
NumericKeywords ==
    {"minimum", "maximum", "exclusiveMinimum", "exclusiveMaximum", "multipleOf"}
StringKeywords == {"pattern", "minLength", "maxLength"}

\* the instance is not of the type keyword k applies to
NotApplicable(k, instance) ==
    \/ k \in ObjectKeywords /\ instance.t # "object"
    \/ k \in ArrayKeywords /\ instance.t # "array"
    \/ k \in NumericKeywords /\ instance.t \notin {"number", "float"}
    \/ k \in StringKeywords /\ instance.t # "string"

\* C16: a type-specific keyword validator called on an instance that is not
\* of the keyword's type yields nothing: no error, no exception, no descent.
C16_TypeGuards ==
    (call.api = "validator" /\ NotApplicable(call.kw, call.instance)) =>
        pending = <<>> /\ out = <<>> /\ log = <<>>

\* exclusiveMinimum 1 on true: True <= 1 holds, and still no error
C16_Witness ==
    /\ ValidatorDone("exclusiveMinimum")
    /\ call.instance = Bool(TRUE)
    /\ Get(schema, "exclusiveMinimum") = Num(1)
    /\ out = <<>>

IsScalar(x) == x.t \in {"string", "number", "float", "boolean", "null"}

\* equality of scalars in which 1.0 equals 1 and no boolean equals a number
ScalarEqual(a, b) ==
    IF a.t = "boolean" \/ b.t = "boolean" THEN a.t = b.t /\ a.v = b.v
    ELSE IF a.t \in {"number", "float"} /\ b.t \in {"number", "float"} THEN a.v = b.v
    ELSE a.t = b.t /\ a.v = b.v

\* C17: for a scalar instance, the library enum and AllowedValue.enum yield
\* nothing iff some enum member equals the instance, 1.0 being equal to 1 and
\* true and false equal to no number; otherwise they yield exactly one error.
C17_Enum ==
    ((ValidatorDone("enum") \/ ValidatorDone("AllowedValue.enum"))
     /\ IsScalar(call.instance)) =>
        LET enums == Get(schema, "enum").v
        IN IF \E j \in 1..Len(enums) : ScalarEqual(enums[j], call.instance)
           THEN out = <<>>
           ELSE /\ Len(out) = 1
                /\ out[1] # NoneV
                /\ out[1].message = "is not one of"

\* true against an enum holding 1 and false: one error, though True == 1
C17_Witness ==
    /\ ValidatorDone("AllowedValue.enum")
    /\ call.instance = Bool(TRUE)
    /\ Get(schema, "enum") = Arr(<<Num(1), Bool(FALSE)>>)
    /\ Len(out) = 1

\* the kernel equality: sequences element by element, scalars by ScalarEqual
RECURSIVE KernelEqual(_, _)
KernelEqual(a, b) ==
    IF IsArr(a) /\ IsArr(b)
    THEN /\ Len(a.v) = Len(b.v)
         /\ \A j \in 1..Len(a.v) : KernelEqual(a.v[j], b.v[j])
    ELSE IF IsScalar(a) /\ IsScalar(b) THEN ScalarEqual(a, b)
    ELSE FALSE

HasEqualPair(elements) ==
    \E i \in 1..Len(elements) : \E j \in 1..Len(elements) :
        i < j /\ KernelEqual(elements[i], elements[j])

\* C18: with uniqueItems true, the library validator and
\* ListDuplicates.validate yield one 'non-unique elements' error for an array
\* iff two of its elements are equal under the kernel equality (1 = 1.0,
\* 1 # true), and nothing when the elements are pairwise unequal, orderable
\* or not.
C18_UniqueItems ==
    ((ValidatorDone("uniqueItems") \/ ValidatorDone("ListDuplicates.validate"))
     /\ IsArr(call.instance) /\ Get(schema, "uniqueItems") = TrueSchema) =>
        IF HasEqualPair(call.instance.v)
        THEN /\ Len(out) = 1
             /\ out[1] # NoneV
             /\ out[1].message = "has non-unique elements"
        ELSE out = <<>>

\* the $dynamicRef of the schema under validation, its own or its branch's
DynamicRefOf ==
    IF Has(schema, "$dynamicRef") THEN Get(schema, "$dynamicRef").v
    ELSE Get(Get(schema, "allOf").v[1], "$dynamicRef").v

UsesDynamicRef ==
    /\ IsObj(schema)
    /\ \/ Has(schema, "$dynamicRef")
       \/ /\ Has(schema, "allOf")
          /\ IsObj(Get(schema, "allOf").v[1])
          /\ Has(Get(schema, "allOf").v[1], "$dynamicRef")

\* the positions in the log where $dynamicRef enters a resolved schema
DynamicPushes ==
    {j \in 1..Len(log) : log[j].e = "push" /\ log[j].by = "$dynamicRef"}

\* those after which the resolved schema is descended into
Descended ==
    {j \in DynamicPushes : j < Len(log) /\ log[j + 1].e = "disp"}

\* the target the reference has when the scopes are tried in `order`: the
\* first scope under which it resolves to a schema with the matching anchor,
\* the ordinary resolution if there is none
DynamicTarget(order, stack, r) ==
    LET Match(j) == /\ Resolve(stack, UrlJoin(order[j], r)).ok
                    /\ AnchorMatches(Resolve(stack, UrlJoin(order[j], r)).schema,
                                     Fragment(r))
    IN IF \E j \in 1..Len(order) : Match(j)
       THEN Resolve(stack, UrlJoin(order[CHOOSE j \in 1..Len(order) :
                                            Match(j) /\ \A h \in 1..(j - 1) : ~Match(h)],
                                   r)).scope
       ELSE Resolve(stack, r).scope

\* a finished run in which $dynamicRef was evaluated
DynamicRefDone ==
    /\ pc = "exhausted" /\ cfg = "modern" /\ UsesDynamicRef
    /\ \/ call.api = "iter_errors"
       \/ call.api = "validator" /\ call.kw = "$dynamicRef"

\* the scope stack $dynamicRef found when it was called
StackAtDynamicRef ==
    LET first == CHOOSE j \in DynamicPushes : \A h \in DynamicPushes : j <= h
    IN StackAfter(scopes, SubSeq(log, 1, first - 1))

TopDisps ==
    LET Top(ev) == ev.e = "disp" /\ ev.d = 0
        top == SelectSeq(log, Top)
    IN [j \in 1..Len(top) |-> top[j].k]

\* the keywords of the schema that have a validator, in the schema's order
BoundKeywords ==
    LET Bound(pair) == VALIDATORS(cfg, pair[1]) # "none"
        bound == SelectSeq(schema.v, Bound)
    IN [j \in 1..Len(bound) |-> bound[j][1]]

\* C20: for a schema that contains $ref, iter_errors dispatches $ref and no
\* sibling of it, and pushes no scope for a sibling $id; for a schema without
\* $ref it dispatches every keyword, in the schema's order.
C20_RefSiblings ==
    (call.api = "iter_errors" /\ pc \in {"exhausted", "raised"} /\ IsObj(schema)) =>
        IF Has(schema, "$ref")
        THEN /\ \A j \in 1..Len(TopDisps) : TopDisps[j] = "$ref"
             /\ ScopeCalls(log, "push", "iter_errors") = 0
        ELSE pc = "exhausted" => TopDisps = BoundKeywords

(***************************************************************************)
(* C21: termination.                                                       *)
(***************************************************************************)
\* the keywords whose sub-schemas are applied to the same instance
InPlaceKeywords == {"allOf", "anyOf", "oneOf", "not", "if", "then", "else"}

\* the documents a schema refers to without consuming instance depth
RECURSIVE SameInstanceRefs(_)
SameInstanceRefs(s) ==
    IF IsArr(s) THEN UNION {SameInstanceRefs(s.v[j]) : j \in 1..Len(s.v)}
    ELSE IF ~IsObj(s) THEN {}
    ELSE UNION {IF s.v[j][1] = "$ref" /\ s.v[j][2].t = "string"
                THEN {s.v[j][2].v} \cap StoreUris
                ELSE IF s.v[j][1] \in InPlaceKeywords
                THEN SameInstanceRefs(s.v[j][2])
                ELSE {} : j \in 1..Len(s.v)}

\* the documents reached from a set of documents in at most n reference steps
RECURSIVE RefReach(_, _)
RefReach(uris, n) ==
    IF n = 0 THEN uris
    ELSE RefReach(uris \cup UNION {SameInstanceRefs(Store(u)) : u \in uris}, n - 1)

\* the documents whose chain of references leads back to themselves
CyclicUris ==
    {u \in StoreUris :
        u \in RefReach(SameInstanceRefs(Store(u)), Cardinality(StoreUris))}

\* the run resolved a reference to a document of a reference cycle
EntersCycle ==
    \E j \in 1..Len(log) :
        log[j].e = "push" /\ log[j].by = "$ref" /\ log[j].s \in CyclicUris

HitRecursionLimit ==
    pc = "raised" /\ result.r = "exception" /\ result.x = "RecursionError"

\* C21: an exhausted iter_errors has run to its end with a finite sequence of
\* errors, unless it resolved a $ref that lies on a cycle of references which
\* consume no instance depth: then, and only then, the evaluation recursed
\* until the call stack was used up, whatever the depth the stack allows
C21_Termination ==
    (call.api = "iter_errors" /\ pc \in {"exhausted", "raised"}) =>
        /\ HitRecursionLimit <=> EntersCycle
        /\ EntersCycle =>
              \A n \in 0..RecursionLimit :
                  \E j \in 1..Len(log) :
                      log[j].e = "push" /\ log[j].by = "$ref" /\ log[j].d >= n
        /\ ~EntersCycle => pending = <<>> /\ Len(out) <= MaxPulls

\* a recursive schema that consumes instance depth: the run ends by itself
C21_Witness ==
    /\ call.api = "iter_errors" /\ pc = "exhausted"
    /\ schema = Store("urn:tree")
    /\ \E j \in 1..Len(log) :
          log[j].e = "push" /\ log[j].by = "$ref" /\ log[j].s = "urn:tree" /\ log[j].d >= 3

(***************************************************************************)
(* Two top-level validations whose iter_errors streams are consumed in any *)
(* interleaving.  A stream runs from one yield to the next without         *)
(* interruption; the consumers decide whose next() comes next.             *)
(***************************************************************************)
\* the schemas of the two validators: each resolves its relative references
\* before its first yield, so that what a stream still has to do when it is
\* resumed does not depend on the scope stack it finds
PairSchemas ==
    { Obj(<< <<"$id", Str("urn:root")>>, <<"type", Str("string")>>,
             <<"minimum", Num(2)>>, <<"maxItems", Num(1)>> >>),
      Obj(<< <<"$id", Str("urn:b")>>, <<"type", Str("number")>>,
             <<"required", Arr(<<Str("a")>>)>>, <<"minimum", Num(2)>> >>),
      Obj(<< <<"$ref", Str("#/definitions/s")>> >>),
      Obj(<< <<"$ref", Str("urn:scoped")>> >>),
      Obj(<< <<"type", Str("string")>>, <<"minimum", Num(2)>> >>) }

PairInstances == {Str("a"), Num(1), Obj(<< <<"b", Num(1)>> >>)}

\* a scope on a resolver's stack and who pushed it (0: RefResolver.from_schema)
Scope(s, by) == [s |-> s, by |-> by]

StackUrls(stack) == [j \in 1..Len(stack) |-> stack[j].s]

\* variant: both validators use the resolver of the first
ResolverOfFirst(i) == 1

\* Validator(schema, resolver=None) makes its own resolver in
\* __attrs_post_init__; Validator(schema, resolver=r) uses r
ResolverOf(i) == IF sharing THEN 1 ELSE i

NewGen(s, instance) ==
    [schema |-> s, instance |-> instance, pc |-> "new",
     pending |-> <<>>, cl |-> <<>>, out |-> <<>>, top |-> <<>>]

PairInit ==
    /\ cfg \in {Configs[n] : n \in 1..Len(Configs)}
    /\ sharing \in BOOLEAN
    /\ gens \in [1..2 -> {NewGen(s, x) : s \in PairSchemas, x \in PairInstances}]
    /\ stacks = [i \in 1..2 |-> <<Scope(id_of(cfg, gens[i].schema), 0)>>]
    /\ hashseed = 0
    /\ schema = TrueSchema
    /\ scopes = <<>>
    /\ call = NoCall
    /\ pc = "off"
    /\ pending = <<>>
    /\ cl = <<>>
    /\ out = <<>>
    /\ log = <<>>
    /\ result = NoResult
    /\ ConvIdle
    /\ DocIdle
    /\ MgrIdle

\* push_scope / pop_scope of the events of validator i on a resolver's stack
RECURSIVE PairStackAfter(_, _, _)
PairStackAfter(stack, evs, i) ==
    IF evs = <<>> THEN stack
    ELSE PairStackAfter(IF Head(evs).e = "push" THEN Append(stack, Scope(Head(evs).s, i))
                        ELSE IF Head(evs).e = "pop" THEN SubSeq(stack, 1, Len(stack) - 1)
                        ELSE stack,
                        Tail(evs), i)

\* the events of a stream up to its next yield, or to its end
Segment(evs) ==
    IF FirstYield(evs) > 0 THEN SubSeq(evs, 1, FirstYield(evs) - 1)
    ELSE IF Raised(evs) THEN SubSeq(evs, 1, Len(evs) - 1)
    ELSE evs

\* next(gen_i), todo being what the generator has still to do
PairResume(i, todo) ==
    /\ stacks' = [stacks EXCEPT
                    ![ResolverOf(i)] = PairStackAfter(@, Segment(todo), i)]
    /\ gens' = [gens EXCEPT
                  ![i] = IF FirstYield(todo) > 0
                         THEN [@ EXCEPT !.pc = "suspended",
                                        !.out = Append(@, todo[FirstYield(todo)].x),
                                        !.cl = todo[FirstYield(todo)].cl,
                                        !.pending = SubSeq(todo, FirstYield(todo) + 1, Len(todo)),
                                        !.top = Append(@, stacks[ResolverOf(i)][Len(stacks[ResolverOf(i)])].by)]
                         ELSE [@ EXCEPT !.pc = IF Raised(todo) THEN todo[Len(todo)].x
                                               ELSE "exhausted",
                                        !.cl = <<>>,
                                        !.pending = <<>>,
                                        !.top = Append(@, stacks[ResolverOf(i)][Len(stacks[ResolverOf(i)])].by)]]
    /\ UNCHANGED <<engineVars, sharing, convVars, docVars, mgrVars>>

\* the first next(): the body of iter_errors starts, on the scope stack it finds
PairStart(i) ==
    /\ gens[i].pc = "new"
    /\ PairResume(i, iter_errors(cfg, gens[i].schema, gens[i].instance,
                                 StackUrls(stacks[ResolverOf(i)]), 0))

\* a later next()
PairNextItem(i) ==
    /\ gens[i].pc = "suspended"
    /\ PairResume(i, gens[i].pending)

\* gen_i.close(): the finally blocks at the suspension point run
PairClose(i) ==
    /\ gens[i].pc = "suspended"
    /\ stacks' = [stacks EXCEPT ![ResolverOf(i)] = PairStackAfter(@, gens[i].cl, i)]
    /\ gens' = [gens EXCEPT ![i] = [@ EXCEPT !.pc = "closed", !.cl = <<>>,
                                             !.pending = <<>>]]
    /\ UNCHANGED <<engineVars, sharing, convVars, docVars, mgrVars>>

PairNext ==
    \/ \E i \in 1..2 : PairStart(i)
    \/ \E i \in 1..2 : PairNextItem(i)
    \/ \E i \in 1..2 : PairClose(i)

PairSpec == PairInit /\ [][PairNext]_vars

\* validator i run alone, on a resolver of its own
Alone(i) ==
    iter_errors(cfg, gens[i].schema, gens[i].instance,
                <<id_of(cfg, gens[i].schema)>>, 0)

\* what the consumer of validator i has seen is what it sees of a run alone
SameAsAlone(i, alone) ==
    /\ Len(gens[i].out) <= Len(Yields(alone))
    /\ gens[i].out = SubSeq(Yields(alone), 1, Len(gens[i].out))
    /\ gens[i].pc = "exhausted" => ~Raised(alone) /\ Len(gens[i].out) = Len(Yields(alone))
    /\ gens[i].pc \notin {"new", "suspended", "exhausted", "closed"} =>
          Raised(alone) /\ alone[Len(alone)].x = gens[i].pc

\* C22: two validations built without a shared resolver share no mutable
\* state: under every interleaving of their streams each resolver's stack
\* holds only the scope it was created with and scopes its own validator
\* pushed, each stream found on top of the stack only such scopes, and each
\* consumer receives what it receives from a run alone
C22_NoSharedState ==
    (gens # <<>> /\ ~sharing) =>
        \A i \in 1..2 :
            /\ \A j \in 1..Len(stacks[i]) : stacks[i][j].by \in {0, i}
            /\ \A j \in 1..Len(gens[i].top) : gens[i].top[j] \in {0, i}
            /\ SameAsAlone(i, Alone(i))

\* two streams on one resolver: the second started while the first was
\* suspended with its scope pushed, resolved its relative reference against
\* that scope, and ended differently from a run alone
C22_Witness ==
    /\ gens # <<>> /\ sharing
    /\ gens[1].pc = "suspended" /\ gens[2].pc = "exhausted"
    /\ gens[2].top = <<1>>
    /\ Raised(Alone(2))

(***************************************************************************)
(* C23: the legacy `items` and `additionalItems`.                          *)
(***************************************************************************)
\* the schema holds the legacy array keywords and nothing else
LegacyArraySchema ==
    /\ IsObj(schema) /\ schema.v # <<>>
    /\ \A j \in 1..Len(schema.v) : schema.v[j][1] \in {"items", "additionalItems"}

\* the schema element n of the instance is to be validated against
LegacySub(n) ==
    IF Has(schema, "items") /\ IsArr(Get(schema, "items"))
    THEN IF n <= Len(Get(schema, "items").v) THEN Get(schema, "items").v[n]
         ELSE IF Has(schema, "additionalItems") /\ IsObj(Get(schema, "additionalItems"))
         THEN Get(schema, "additionalItems")
         ELSE TrueSchema
    ELSE IF Has(schema, "items") THEN Get(schema, "items")
    ELSE TrueSchema

\* the instance has elements beyond the `items` array and additionalItems is false
ExcessForbidden ==
    /\ Has(schema, "additionalItems") /\ Get(schema, "additionalItems") = FalseSchema
    /\ Has(schema, "items") /\ IsArr(Get(schema, "items"))
    /\ Len(call.instance.v) > Len(Get(schema, "items").v)

IsExcessError(e) == e # NoneV /\ e.message = "Additional items are not allowed"

\* C23: under the host's (legacy) dispatch table element i of an array is
\* validated against items[i] while i < len(items), against the single
\* `items` schema when there is one, and against additionalItems beyond the
\* `items` array; additionalItems does nothing when `items` is a single
\* schema or absent, and when it is false it yields exactly one error iff
\* the instance is longer than the `items` array
C23_LegacyItems ==
    (/\ call.api = "iter_errors" /\ cfg = "host" /\ pc \in {"exhausted", "raised"}
     /\ LegacyArraySchema /\ IsArr(call.instance)) =>
        /\ pc = "exhausted"
        /\ \A n \in 1..Len(call.instance.v) :
              [j \in 1..Len(ErrorsAt(out, Idx(n - 1))) |->
                  <<ErrorsAt(out, Idx(n - 1))[j].message, ErrorsAt(out, Idx(n - 1))[j].path>>]
              = [j \in 1..Len(SubErrors(LegacySub(n), call.instance.v[n])) |->
                  <<SubErrors(LegacySub(n), call.instance.v[n])[j].message,
                    <<Idx(n - 1)>> \o SubErrors(LegacySub(n), call.instance.v[n])[j].path>>]
        /\ Len(SelectSeq(out, IsExcessError)) = IF ExcessForbidden THEN 1 ELSE 0
        /\ \A j \in 1..Len(out) : out[j].path = <<>> => IsExcessError(out[j])

(***************************************************************************)
(* Instance paths.                                                         *)
(***************************************************************************)
RECURSIVE InstanceAt(_, _)
\* the value an instance path leads to from a root value (None: nowhere)
InstanceAt(instance, path) ==
    IF path = <<>> THEN instance
    ELSE IF "k" \in DOMAIN path[1]
    THEN IF IsObj(instance) /\ Has(instance, path[1].k)
         THEN InstanceAt(Get(instance, path[1].k), Tail(path))
         ELSE NoneV
    ELSE IF IsArr(instance) /\ path[1].i < Len(instance.v)
         THEN InstanceAt(instance.v[path[1].i + 1], Tail(path))
         ELSE NoneV

\* an error as its keyword validator made it: no iter_errors has stamped it
Unstamped(e) == e # NoneV /\ e.instance = NoneV

\* the path leads from the root to the value the keyword was applied to: a
\* value of the document, or (propertyNames) the name of a key of one
LeadsTo(root, path, applied) ==
    \/ InstanceAt(root, path) = applied
    \/ /\ InstanceAt(root, path) # NoneV /\ IsObj(InstanceAt(root, path))
       /\ applied # NoneV /\ applied.t = "string"
       /\ Has(InstanceAt(root, path), applied.v)

\* C24: an error is created by its keyword validator with an empty instance
\* path and gets one segment from each enclosing descend that was given a
\* path: what a keyword validator yields of its own has an empty path, and
\* the path of an error yielded by a top-level iter_errors leads from the
\* root instance to the value the failing keyword was applied to (so it is
\* exactly as long as that value is deep)
C24_InstancePaths ==
    /\ (call.api = "validator" /\ pc \in {"exhausted", "raised"}) =>
          \A j \in 1..Len(out) : Unstamped(out[j]) => out[j].path = <<>>
    /\ (call.api = "iter_errors" /\ pc \in {"exhausted", "raised"}) =>
          \A j \in 1..Len(out) : LeadsTo(call.instance, out[j].path, out[j].instance)

\* C26: for every instance and value c, `enum: [c]` yields an error iff
\* `const: c` yields one: both keywords use the same equality, also for a
\* boolean against a number nested in an array or object
C26_EnumIsConst ==
    /\ ValidatorDone("const") =>
          ((out # <<>>) <=> (enum(Arr(<<Get(schema, "const")>>), call.instance) # <<>>))
    /\ (ValidatorDone("enum") /\ Len(Get(schema, "enum").v) = 1) =>
          ((out # <<>>) <=> (const(Get(schema, "enum").v[1], call.instance) # <<>>))

\* the instance paths of what a stream yielded (None for a None)
PathsOf(got) ==
    [j \in 1..Len(got) |-> IF got[j] = NoneV THEN NoneV ELSE got[j].path]

DependenciesImpls ==
    {"dependencies_draft4_draft6_draft7", "_validators.dependencies_draft4_draft6_draft7"}

\* the missing members of the array-valued dependencies of present properties
MissingPairs(dependencies, instance) ==
    {<<j, n>> \in (1..Len(dependencies.v)) \X (1..MaxLen + 1) :
        /\ Has(instance, dependencies.v[j][1])
        /\ IsArr(dependencies.v[j][2])
        /\ n <= Len(dependencies.v[j][2].v)
        /\ ~Has(instance, dependencies.v[j][2].v[n].v)}

IsDependencyError(e) == e # NoneV /\ e.message = "is a dependency of"

\* C27: the helpers written twice, in jsonschema/_validators.py and in
\* schema/_legacy_validators.py, are observationally equivalent: either
\* `dependencies` implementation yields as many items, with the same
\* instance paths, as the other does on the same schema and instance, one
\* error per missing dependency of a present property among them
C27_TwinHelpers ==
    \A impl \in DependenciesImpls :
        ValidatorDone(impl) =>
            /\ \A other \in DependenciesImpls :
                  PathsOf(out) =
                      PathsOf(Yields(CallImpl(cfg, other, Get(schema, "dependencies"),
                                              call.instance, schema, InitStack, 0)))
            /\ IsObj(call.instance) =>
                  Len(SelectSeq(out, IsDependencyError))
                      = Cardinality(MissingPairs(Get(schema, "dependencies"), call.instance))

\* C28: json_schema_validate returns exactly one RuleMatch per error the
\* validator yields, in order, its path the given prefix followed by the
\* error's instance path, whatever keyword the error is of; it never raises
\* while converting an error
C28_OneMatchPerError ==
    (call.api = "json_schema_validate" /\ ~Raised(Full)) =>
        /\ pc = "returned"
        /\ Len(result.matches) = Len(Yields(Full))
        /\ \A j \in 1..Len(result.matches) :
              /\ result.matches[j].path = call.prefix \o Yields(Full)[j].path
              /\ result.matches[j].message = Yields(Full)[j].message

(***************************************************************************)
(* Configuration._check_resource: the rule turns the errors of its own     *)
(* validator (the library's Draft7Validator extended with the rule's       *)
(* keyword handlers) into matches.                                         *)
(***************************************************************************)
\* an optional list argument: None, or a list
List(seq) == [kind |-> "list", v |-> seq]

\* `x or {}`, `if x:` on an optional list or dict
Truthy(x) == x # NoneV /\ x.v # <<>>

\* cfnlint.schema.exceptions.ValidationError(message, path=(), context=(),
\*     extra_args=None, rule=None, path_override=None)
HostValidationError(message, extra_args, rule, path_override) ==
    [message |-> message, path |-> <<>>,
     extra_args |-> IF Truthy(extra_args) THEN extra_args ELSE List(<<>>),
     rule |-> rule, path_override |-> path_override]

\* the library's descend chain around the handler: each level prepends its
\* segment to error.path and touches nothing else of the error
Threaded(error, path) == [error EXCEPT !.path = path \o @]

\* variant: the override looked up for every error, whatever its path
CheckedErrorAnyPath(resource_name, e) ==
    IF Truthy(e.path_override)
    THEN RuleMatch(e.path_override.v, e.message, NoneV)
    ELSE RuleMatch(<<Key("Resources"), Key(resource_name)>> \o e.path, e.message, NoneV)

\* the loop body of _check_resource for one error (the source positions of
\* the keys, `location`, are not modelled)
CheckedError(resource_name, e) ==
    LET e_path == <<Key("Resources"), Key(resource_name)>> \o e.path
    IN IF Len(e.path) > 0
       THEN IF Truthy(e.path_override)
            THEN RuleMatch(e.path_override.v, e.message, NoneV)
            ELSE RuleMatch(e_path, e.message, NoneV)
       ELSE RuleMatch(e_path, e.message, NoneV)

\* Configuration._check_resource(cfn, resource_name, resource_values)
_check_resource(resource_name, errors) ==
    [j \in 1..Len(errors) |-> CheckedError(resource_name, errors[j])]

\* what the handlers attach, and where the failing values sit in the resource
Attributions ==
    [extra_args : {NoneV, List(<<Str("a")>>)},
     rule : {NoneV, Str("E3001")},
     path_override : {NoneV, List(<<Key("Resources"), Key("R"), Key("Type")>>)}]
ErrorPaths == {<<>>, <<Key("Type")>>, <<Key("Properties"), Key("a")>>}
ResourceNames == {"R", "S"}

ConvInit ==
    /\ attached = <<>> /\ yielded = <<>> /\ reported = <<>> /\ chk = "open"
    /\ cfg = "host" /\ hashseed = 0 /\ schema = TrueSchema /\ scopes = <<>>
    /\ call = NoCall /\ pc = "off" /\ pending = <<>> /\ cl = <<>> /\ out = <<>>
    /\ log = <<>> /\ result = NoResult
    /\ PairIdle
    /\ DocIdle
    /\ MgrIdle

\* a keyword handler of the rule yields an error with its attribution; the
\* validator re-yields it with the instance path of the failing value
HandlerYield(a, path) ==
    /\ chk = "open"
    /\ Len(yielded) < MaxLen
    /\ attached' = Append(attached, a)
    /\ yielded' = Append(yielded,
                         Threaded(HostValidationError("m", a.extra_args, a.rule,
                                                      a.path_override), path))
    /\ UNCHANGED <<reported, chk, engineVars, pairVars, docVars, mgrVars>>

\* matches = self._check_resource(cfn, resource_name, resource_values)
CheckResource(resource_name) ==
    /\ chk = "open"
    /\ reported' = _check_resource(resource_name, yielded)
    /\ chk' = resource_name
    /\ UNCHANGED <<attached, yielded, engineVars, pairVars, docVars, mgrVars>>

ConvNext ==
    \/ \E a \in Attributions, path \in ErrorPaths : HandlerYield(a, path)
    \/ \E resource_name \in ResourceNames : CheckResource(resource_name)

ConvSpec == ConvInit /\ [][ConvNext]_vars

Ptr(parts) == [t |-> "pointer", v |-> parts]

\* an exception leaving a call
Exc(name) == [t |-> "exception", v |-> name]

\* dict.get(key)
DictGet(obj, key) == IF Has(obj, key) THEN Get(obj, key) ELSE NoneV

\* del obj[key]
Del(obj, key) ==
    LET Other(pair) == pair[1] # key
    IN Obj(SelectSeq(obj.v, Other))

\* obj[key] = val
Put(obj, key, val) ==
    IF Has(obj, key)
    THEN Obj([j \in 1..Len(obj.v) |->
                 IF obj.v[j][1] = key THEN <<key, val>> ELSE obj.v[j]])
    ELSE Obj(Append(obj.v, <<key, val>>))

RECURSIVE CleansePointer(_, _, _)
\* the body of the loop of _cleanse_schema for one pointer: walk
\* split("/")[1:-1] with .get, then delete the last part where it is found;
\* the deletion is made in the object walked, seen here from its root
CleansePointer(sub_schema, mid, last) ==
    IF mid = <<>>
    THEN IF DictGet(sub_schema, last) # NoneV THEN Del(sub_schema, last) ELSE sub_schema
    ELSE IF DictGet(sub_schema, Head(mid)) = NoneV THEN sub_schema
    ELSE Put(sub_schema, Head(mid),
             CleansePointer(Get(sub_schema, Head(mid)), Tail(mid), last))

\* schema.get("readOnlyProperties", [])
ReadOnlyProperties(doc) == GetOr(doc, "readOnlyProperties", Arr(<<>>)).v

RECURSIVE _cleanse_schema(_, _, _)
\* Schema._cleanse_schema(schema): the content of `schema` when it returns
_cleanse_schema(doc, ro_props, j) ==
    IF j > Len(ro_props) THEN doc
    ELSE _cleanse_schema(
             CleansePointer(doc, SubSeq(ro_props[j].v, 2, Len(ro_props[j].v) - 1),
                            ro_props[j].v[Len(ro_props[j].v)]),
             ro_props, j + 1)

\* the content of the argument of Schema(schema) after __init__
CleansedInPlace(doc) == _cleanse_schema(doc, ReadOnlyProperties(doc), 1)

\* pointer.walk(obj, part) with get_part: a mapping is indexed by the part,
\* a sequence (a list, a string) by int(part), anything else cannot be
WalkPart(obj, part) ==
    IF obj.t = "object"
    THEN IF Has(obj, part) THEN Get(obj, part) ELSE Exc("KeyError")
    ELSE IF obj.t \in {"array", "string"}
    THEN Exc("ValueError")   \* int(part) of a part that is no number
    ELSE Exc("KeyError")

RECURSIVE pointer_resolve(_, _)
\* pointer.resolve(obj, parts), on parts.split("/")[1:]
pointer_resolve(obj, parts) ==
    IF parts = <<>> \/ obj.t = "exception" THEN obj
    ELSE pointer_resolve(WalkPart(obj, Head(parts)), Tail(parts))

RECURSIVE GetAttsLoop(_, _, _, _)
\* one pointer of get_atts: r is what pointer.resolve did
GetAttsStep(doc, ro_props, j, attrs, r) ==
    IF r = Exc("KeyError") THEN GetAttsLoop(doc, ro_props, j + 1, attrs)
    ELSE IF r.t = "exception" THEN r
    ELSE GetAttsLoop(doc, ro_props, j + 1,
                     Put(attrs, ro_props[j].v[Len(ro_props[j].v)], r))

\* for ro_attr in self.schema.get('readOnlyProperties', []): ...
GetAttsLoop(doc, ro_props, j, attrs) ==
    IF j > Len(ro_props) THEN attrs
    ELSE GetAttsStep(doc, ro_props, j, attrs,
                     pointer_resolve(doc, Tail(ro_props[j].v)))

\* Schema.get_atts()
get_atts(doc) == GetAttsLoop(doc, ReadOnlyProperties(doc), 1, Obj(<<>>))

\* the documents: a resource type with some properties, one of them an
\* object with a property of its own, and its read-only pointers
EndpointSchema ==
    Obj(<< <<"type", Str("object")>>, <<"properties", Obj(<< <<"Address", TString>> >>)>> >>)
PropertySets ==
    { Obj(<< <<"Arn", TString>> >>),
      Obj(<< <<"Arn", TString>>, <<"Id", TNumber>> >>),
      Obj(<< <<"Arn", TString>>, <<"Endpoint", EndpointSchema>> >>),
      Obj(<< <<"Id", TNumber>>, <<"Endpoint", EndpointSchema>> >>) }
Pointers ==
    { Ptr(<<"", "properties", "Arn">>), Ptr(<<"", "properties", "Id">>),
      Ptr(<<"", "properties", "Endpoint", "Address">>),
      Ptr(<<"", "properties", "Missing">>), Ptr(<<"", "definitions", "X", "Y">>) }
Docs ==
    {Obj(<< <<"typeName", Str("a")>>, <<"properties", props>> >>) : props \in PropertySets}
    \cup {Obj(<< <<"typeName", Str("a")>>, <<"properties", props>>,
                 <<"readOnlyProperties", Arr(ro_props)>> >>) :
             props \in PropertySets,
             ro_props \in UNION {[1..n -> Pointers] : n \in 0..MaxLen}}

DocInit ==
    /\ caller_doc \in Docs
    /\ given_doc = caller_doc
    /\ self_schema = Null /\ self_json_schema = "" /\ returned = Null /\ sp = "new"
    /\ cfg = "host" /\ hashseed = 0 /\ schema = TrueSchema /\ scopes = <<>>
    /\ call = NoCall /\ pc = "off" /\ pending = <<>> /\ cl = <<>> /\ out = <<>>
    /\ log = <<>> /\ result = NoResult
    /\ PairIdle
    /\ ConvIdle
    /\ MgrIdle

\* Schema(schema): self.schema is a deep copy of the argument taken before
\* the cleansing; _cleanse_schema works on the argument itself and returns
\* it, so self._json_schema is the caller's object
SchemaNew ==
    /\ sp = "new"
    /\ self_schema' = caller_doc
    /\ caller_doc' = CleansedInPlace(caller_doc)
    /\ self_json_schema' = "caller_doc"
    /\ sp' = "built"
    /\ UNCHANGED <<given_doc, returned, engineVars, pairVars, convVars, mgrVars>>

\* Schema.json_schema()
JsonSchemaCall ==
    /\ sp # "new"
    /\ returned' = caller_doc     \* the object self._json_schema refers to
    /\ sp' = "json_schema"
    /\ UNCHANGED <<caller_doc, given_doc, self_schema, self_json_schema,
                   engineVars, pairVars, convVars, mgrVars>>

\* Schema.get_atts()
GetAttsCall ==
    /\ sp # "new"
    /\ returned' = get_atts(self_schema)
    /\ sp' = "get_atts"
    /\ UNCHANGED <<caller_doc, given_doc, self_schema, self_json_schema,
                   engineVars, pairVars, convVars, mgrVars>>

DocNext == SchemaNew \/ JsonSchemaCall \/ GetAttsCall

DocSpec == DocInit /\ [][DocNext]_vars

RECURSIVE PropertyChain(_, _)
\* the document defines the property names[1], and in it names[2], ...
PropertyChain(doc, names) ==
    \/ names = <<>>
    \/ /\ Has(doc, "properties") /\ Has(Get(doc, "properties"), Head(names))
       /\ PropertyChain(Get(Get(doc, "properties"), Head(names)), Tail(names))

\* the document holds the definition of the property a pointer names
DefinesProperty(doc, pointer) ==
    /\ Len(pointer.v) > 2 /\ pointer.v[2] = "properties"
    /\ PropertyChain(doc, SubSeq(pointer.v, 3, Len(pointer.v)))

\* the pointer resolves in the document
Resolves(doc, pointer) == pointer_resolve(doc, Tail(pointer.v)).t # "exception"

\* C29: once Schema(doc) is constructed, json_schema() holds no definition
\* of a property that a readOnlyProperties pointer of doc names, at any
\* depth; get_atts() has an entry under the last segment of every pointer
\* that resolves in the original document; and the document the caller
\* passed is what it was
C29_SchemaCleansed ==
    sp \in {"built", "json_schema", "get_atts"} =>
        /\ caller_doc = given_doc
        /\ sp = "json_schema" =>
              \A j \in 1..Len(ReadOnlyProperties(given_doc)) :
                  ~DefinesProperty(returned, ReadOnlyProperties(given_doc)[j])
        /\ sp = "get_atts" =>
              /\ returned.t = "object"
              /\ \A j \in 1..Len(ReadOnlyProperties(given_doc)) :
                    LET pointer == ReadOnlyProperties(given_doc)[j]
                    IN Resolves(given_doc, pointer) =>
                          Has(returned, pointer.v[Len(pointer.v)])

(***************************************************************************)
(* ProviderSchemaManager (cfnlint/schema/manager.py): the provider schemas *)
(* of each region, loaded on demand.  An object is named by its number     *)
(* among those created for the same key (the n-th Schema a manager made    *)
(* for a region and type, the n-th attribute map made for a region and     *)
(* type); 0 stands for an absent entry.                                    *)
(***************************************************************************)
MaxManagers == 2
REGIONS == <<"us-east-1">>
Regions == {REGIONS[n] : n \in 1..Len(REGIONS)}
\* the type names of the documents of a region, in resource_listdir order
ResourceFiles(region) == <<"AWS::A::A", "AWS::B::B">>
ResourceTypes == {"AWS::A::A", "AWS::B::B"}

PerType(x) == [region \in Regions |-> [resource_type \in ResourceTypes |-> x]]

\* self._cache["ResourceTypes"] = {}, self._cache["GetAtts"] = {}, and an
\* empty entry of each for every region
EmptyCache ==
    [ResourceTypes |-> [region \in Regions |-> <<>>], GetAtts |-> PerType(0)]

\* the state the methods work on
ManagerState(s, c, p, o, l) ==
    [schemas |-> s, cache |-> c, modules |-> p, objects |-> o, loads |-> l]
Returning(st, v) == [st |-> st, v |-> v]

\* self._schemas[region][resource_type] = Schema(load_resource(...))
LoadSchema(st, m, region, resource_type) ==
    [st EXCEPT !.schemas[m][region][resource_type] =
                   st.loads[m][region][resource_type] + 1,
               !.loads[m][region][resource_type] = @ + 1]

\* ProviderSchemaManager.get_resource_schema(region, resource_type)
get_resource_schema(st, m, region, resource_type) ==
    IF st.schemas[m][region][resource_type] # 0
    THEN Returning(st, st.schemas[m][region][resource_type])
    ELSE Returning(LoadSchema([st EXCEPT !.modules = @ \cup {region}],
                              m, region, resource_type),
                   st.loads[m][region][resource_type] + 1)

RECURSIVE LoadEveryFile(_, _, _, _)
\* for filename in resource_listdir(...): load it, keep its Schema, note its type
LoadEveryFile(st, m, region, j) ==
    IF j > Len(ResourceFiles(region)) THEN st
    ELSE LoadEveryFile(
             [LoadSchema(st, m, region, ResourceFiles(region)[j])
                 EXCEPT !.cache.ResourceTypes[region] = Append(@, ResourceFiles(region)[j])],
             m, region, j + 1)

\* ProviderSchemaManager.get_resource_types(region)
get_resource_types(st, m, region) ==
    IF st.cache.ResourceTypes[region] # <<>>
    THEN Returning(st, st.cache.ResourceTypes[region])
    ELSE Returning(LoadEveryFile([st EXCEPT !.modules = @ \cup {region}], m, region, 1),
                   ResourceFiles(region))

\* self._cache["GetAtts"][region][resource_type] = <Schema>.get_atts(): a new dict
CacheGetAtts(st, region, resource_type) ==
    Returning([st EXCEPT !.cache.GetAtts[region][resource_type] =
                             st.objects[region][resource_type] + 1,
                         !.objects[region][resource_type] = @ + 1],
              st.objects[region][resource_type] + 1)

\* ProviderSchemaManager.get_type_getatts(resource_type, region)
get_type_getatts(st, m, resource_type, region) ==
    IF st.cache.GetAtts[region][resource_type] # 0
    THEN Returning(st, st.cache.GetAtts[region][resource_type])
    ELSE CacheGetAtts(get_resource_schema(st, m, region, resource_type).st,
                      region, resource_type)

NoAnswer == [op |-> "none", m |-> 0, region |-> "", resource_type |-> "", v |-> 0]

\* PROVIDER_SCHEMA_MANAGER = ProviderSchemaManager(): the first manager
MgrInit ==
    /\ managers = 1
    /\ _schemas = [m \in 1..MaxManagers |-> PerType(0)]
    /\ _cache = EmptyCache
    /\ _provider_schema_modules = {}
    /\ objects = PerType(0)
    /\ loads = [m \in 1..MaxManagers |-> PerType(0)]
    /\ firsts = [schema |-> [m \in 1..MaxManagers |-> PerType(0)],
                 atts |-> [m \in 1..MaxManagers |-> PerType(0)]]
    /\ answer = NoAnswer
    /\ cfg = "host" /\ hashseed = 0 /\ schema = TrueSchema /\ scopes = <<>>
    /\ call = NoCall /\ pc = "off" /\ pending = <<>> /\ cl = <<>> /\ out = <<>>
    /\ log = <<>> /\ result = NoResult
    /\ PairIdle
    /\ ConvIdle
    /\ DocIdle

Current == ManagerState(_schemas, _cache, _provider_schema_modules, objects, loads)

\* a method returned: the state it left, and what it gave
Returned(op, m, region, resource_type, r) ==
    /\ _schemas' = r.st.schemas
    /\ _cache' = r.st.cache
    /\ _provider_schema_modules' = r.st.modules
    /\ objects' = r.st.objects
    /\ loads' = r.st.loads
    /\ answer' = [op |-> op, m |-> m, region |-> region,
                  resource_type |-> resource_type, v |-> r.v]
    /\ UNCHANGED <<managers, engineVars, pairVars, convVars, docVars>>

\* ProviderSchemaManager(): self._schemas is the instance's own, _cache is
\* the class attribute every manager shares
NewManager ==
    /\ managers < MaxManagers
    /\ managers' = managers + 1
    /\ _schemas' = [_schemas EXCEPT ![managers + 1] = PerType(0)]
    /\ _cache' = EmptyCache
    /\ answer' = NoAnswer
    /\ UNCHANGED <<_provider_schema_modules, objects, loads, firsts,
                   engineVars, pairVars, convVars, docVars>>

GetResourceSchema(m, region, resource_type) ==
    /\ m <= managers
    /\ Returned("get_resource_schema", m, region, resource_type,
                get_resource_schema(Current, m, region, resource_type))
    /\ firsts' = IF firsts.schema[m][region][resource_type] # 0 THEN firsts
                 ELSE [firsts EXCEPT !.schema[m][region][resource_type] =
                          get_resource_schema(Current, m, region, resource_type).v]

GetResourceTypes(m, region) ==
    /\ m <= managers
    /\ Returned("get_resource_types", m, region, "", get_resource_types(Current, m, region))
    /\ UNCHANGED firsts

GetTypeGetAtts(m, resource_type, region) ==
    /\ m <= managers
    /\ Returned("get_type_getatts", m, region, resource_type,
                get_type_getatts(Current, m, resource_type, region))
    /\ firsts' = IF firsts.atts[m][region][resource_type] # 0 THEN firsts
                 ELSE [firsts EXCEPT !.atts[m][region][resource_type] =
                          get_type_getatts(Current, m, resource_type, region).v]

MgrNext ==
    \/ NewManager
    \/ \E m \in 1..MaxManagers, region \in Regions, resource_type \in ResourceTypes :
            GetResourceSchema(m, region, resource_type)
    \/ \E m \in 1..MaxManagers, region \in Regions : GetResourceTypes(m, region)
    \/ \E m \in 1..MaxManagers, region \in Regions, resource_type \in ResourceTypes :
            GetTypeGetAtts(m, resource_type, region)

MgrSpec == MgrInit /\ [][MgrNext]_vars

\* C30: whatever get_resource_schema, get_resource_types and
\* get_type_getatts calls were made on a manager, and whether or not another
\* manager was constructed meanwhile, get_resource_schema gives the Schema
\* object it gave the first time for that region and type, no document has
\* been loaded twice for one manager, region and type, and get_type_getatts
\* gives the attribute map it gave the first time
C30_Caching ==
    /\ answer.op = "get_resource_schema" =>
          answer.v = firsts.schema[answer.m][answer.region][answer.resource_type]
    /\ answer.op = "get_type_getatts" =>
          answer.v = firsts.atts[answer.m][answer.region][answer.resource_type]
    /\ \A m \in 1..MaxManagers, region \in Regions, resource_type \in ResourceTypes :
          loads[m][region][resource_type] <= 1

====
